---- MODULE Spec2Model ----
(***************************************************************************)
(* dock-it: the Docker client wrapper (internal/docker) as a state machine. *)
(*                                                                         *)
(* Spec       Client.ListContainers: the listing call, the goroutine per   *)
(*            running container, the semaphore channel, the merge mutex,   *)
(*            the WaitGroup and the per-fetch deadline.                     *)
(* FairSpec   Spec with the fairness Go's scheduler and timers give.        *)
(* StatsSpec  Client.getContainerStatsWithContext as a pure computation     *)
(*            over one decoded stats payload.                               *)
(* FilterSpec internal/filter: ParseFilter on one typed text, then one      *)
(*            Match call of the filter it returned.                         *)
(* UISpec     the table view and the filter bar of the UI: the keys, the    *)
(*            load goroutines and their render callbacks.                   *)
(* CallSpec   one call of parseDuration, parseBytes or logs.Colorize on     *)
(*            one text.                                                     *)
(* RowSpec    one view of the UI with its event loop: a render pass record  *)
(*            by record, the selection, the filter bar and the actions on   *)
(*            the selected row.                                             *)
(*                                                                         *)
(* Time: one clock tick is one second.  Computation takes no time; time     *)
(* passes only while every goroutine is blocked on network I/O, on the      *)
(* semaphore or in wg.Wait (the "scheduling overhead" is taken as zero).    *)
(* Go slices are 0-based, TLA+ sequences 1-based: index i of the source is  *)
(* position i+1 here.                                                       *)
(***************************************************************************)
EXTENDS Integers, Sequences, FiniteSets, TLC

\* ------------------------------------------------------------------------
\* Program constants (part_001:33-37)
maxStatsWorkers == 4
statsTimeout == 2

\* Bounds of the model
MaxContainers == 5
WordBits == 3
MaxCPUs == 4
MaxTokens == 4
MaxClauses == 3
MaxLoads == 2
MaxLines == 2
MaxActions == 1

VARIABLES
    \* ListContainers
    pc,                 \* position of the calling goroutine
    lerr,               \* the err value of c.cli.ContainerList ("none" before the call)
    containers,         \* what c.cli.ContainerList returned
    result,             \* []ContainerInfo, shared with the workers
    runningContainers,  \* map[string]int: container ID -> index in result
    wpc,                \* position of the goroutine started for each ID
    windex,             \* the goroutine's index parameter
    wstats,             \* the goroutine's stats value
    werr,               \* the goroutine's err value: how its fetch ended
    wrem,               \* seconds left until the goroutine's statsCtx deadline
    sem,                \* number of tokens in the sem channel
    mu,                 \* holder of the mutex ("" when unlocked)
    wg,                 \* WaitGroup counter
    elapsed,            \* seconds since ListContainers was called
    ret,                \* what ListContainers returned
    \* getContainerStatsWithContext
    spc,                \* position in the stats computation
    payload,            \* the decoded container.StatsResponse
    computed,           \* its float64 locals
    stats,              \* the *ContainerStats returned
    \* internal/filter
    fpc,                \* position of the filter bar: typed, parsed, matched
    input,              \* the text given to ParseFilter
    filter,             \* the *Filter ParseFilter returned
    ferr,               \* the error ParseFilter returned
    matched,            \* the Match call made on the filter, and its result
    \* UI
    uiFilter,           \* u.filter
    filterInput,        \* the text of u.filterInput
    filterMode,         \* u.filterMode
    statusBar,          \* the text of u.statusBar
    currentView,        \* u.currentView
    table,              \* the title and the cells of u.table
    selection,          \* the selected row of u.table
    lists,              \* u.containers, u.images, u.networks, u.volumes
    loads,              \* the load goroutines that have not rendered yet
    \* one call of a function of internal/filter or internal/logs
    callee,             \* the function called ("" before the call)
    argument,           \* the text it is called on
    outcome,            \* what it returned
    \* UI: the event loop and the actions on a row
    rendering,          \* the render callback the event loop is running
    viewMode,           \* u.viewMode
    detailView,         \* the title, the resource and the text of u.detailView
    asyncActions        \* the goroutines of runAsyncAction that have not ended

lcVars == <<pc, lerr, containers, result, runningContainers, wpc, windex, wstats,
            werr, wrem, sem, mu, wg, elapsed, ret>>
stVars == <<spc, payload, computed, stats>>
fVars == <<fpc, input, filter, ferr, matched>>
uiVars == <<uiFilter, filterInput, filterMode, statusBar, currentView, table, selection,
            lists, loads>>
callVars == <<callee, argument, outcome>>
rowVars == <<rendering, viewMode, detailView, asyncActions>>
vars == <<pc, lerr, containers, result, runningContainers, wpc, windex, wstats,
          werr, wrem, sem, mu, wg, elapsed, ret, spc, payload, computed, stats,
          fpc, input, filter, ferr, matched,
          uiFilter, filterInput, filterMode, statusBar, currentView, table, selection,
          lists, loads, callee, argument, outcome,
          rendering, viewMode, detailView, asyncActions>>

\* ------------------------------------------------------------------------
\* float64 values as exact fractions n/d in lowest terms (d > 0)

RECURSIVE GCD(_, _)
GCD(a, b) == IF b = 0 THEN a ELSE GCD(b, a % b)

Frac(n, d) == LET g == GCD(n, d) IN [n |-> n \div g, d |-> d \div g]

Float(i) == [n |-> i, d |-> 1]

FDiv(x, y) == Frac(x.n * y.d, x.d * y.n)

FMul(x, y) == Frac(x.n * y.n, x.d * y.d)

FAdd(x, y) == Frac(x.n * y.d + y.n * x.d, x.d * y.d)

FPos(x) == x.n > 0

Pow10(p) == IF p = 0 THEN 1 ELSE IF p = 1 THEN 10 ELSE 100

\* x * 10^prec rounded to the nearest integer, ties to even (strconv's
\* shortest-decimal rounding of an exactly represented value)
RoundScaled(x, prec) ==
    LET num == x.n * Pow10(prec)
        q == num \div x.d
        r2 == 2 * (num % x.d)
    IN  IF r2 > x.d \/ (r2 = x.d /\ q % 2 = 1) THEN q + 1 ELSE q

\* fmt.Sprintf("%.<prec>f", x) for x >= 0
FormatFixed(x, prec) ==
    LET s == RoundScaled(x, prec)
        whole == s \div Pow10(prec)
        frac == s % Pow10(prec)
        pad == IF prec = 2 /\ frac < 10 THEN "0" ELSE ""
    IN  ToString(whole) \o "." \o pad \o ToString(frac)

\* ------------------------------------------------------------------------
\* getContainerStatsWithContext (part_001:202-245), after a successful decode

\* The counters are uint64 in the SDK; the model keeps the wrap-around of
\* unsigned subtraction at a word of WordBits bits.
Modulus == 2 ^ WordBits

USub(a, b) == (a - b + Modulus) % Modulus

cpuDelta(p) == Float(USub(p.CPUStats.CPUUsage.TotalUsage, p.PreCPUStats.CPUUsage.TotalUsage))

systemDelta(p) == Float(USub(p.CPUStats.SystemUsage, p.PreCPUStats.SystemUsage))

\* Mutant: the per-CPU fallback of part_001:217-219 is left out
onlineCPUsReportedOnly(p) == Float(p.CPUStats.OnlineCPUs)

onlineCPUs(p) ==
    IF p.CPUStats.OnlineCPUs = 0 /\ Len(p.CPUStats.CPUUsage.PercpuUsage) > 0
    THEN Float(Len(p.CPUStats.CPUUsage.PercpuUsage))
    ELSE Float(p.CPUStats.OnlineCPUs)

cpuPercent(p) ==
    IF FPos(cpuDelta(p)) /\ FPos(systemDelta(p)) /\ FPos(onlineCPUs(p))
    THEN FMul(FMul(FDiv(cpuDelta(p), systemDelta(p)), onlineCPUs(p)), Float(100))
    ELSE Float(0)

\* Mutant: the ratio is not scaled to a percentage
memPercentUnscaled(p) ==
    IF p.MemoryStats.Limit > 0
    THEN FDiv(Float(p.MemoryStats.Usage), Float(p.MemoryStats.Limit))
    ELSE Float(0)

memPercent(p) ==
    IF p.MemoryStats.Limit > 0
    THEN FMul(FDiv(Float(p.MemoryStats.Usage), Float(p.MemoryStats.Limit)), Float(100))
    ELSE Float(0)

RECURSIVE rxBytes(_)
rxBytes(nets) ==
    IF nets = <<>> THEN Float(0) ELSE FAdd(rxBytes(Tail(nets)), Float(Head(nets).RxBytes))

RECURSIVE txBytes(_)
txBytes(nets) ==
    IF nets = <<>> THEN Float(0) ELSE FAdd(txBytes(Tail(nets)), Float(Head(nets).TxBytes))

MiB == 1024 * 1024

getContainerStatsWithContext(p) ==
    [CPU    |-> FormatFixed(cpuPercent(p), 2) \o "%",
     Memory |-> FormatFixed(memPercent(p), 2) \o "%",
     NetIO  |-> FormatFixed(FDiv(rxBytes(p.Networks), Float(MiB)), 1) \o "MB/"
                \o FormatFixed(FDiv(txBytes(p.Networks), Float(MiB)), 1) \o "MB"]

\* ------------------------------------------------------------------------
\* Go strings as sequences of one-character strings; the functions of the
\* strings package that internal/filter calls, over ASCII text

Min(S) == CHOOSE x \in S : \A y \in S : x <= y

\* Op applied to the value v: a local variable that is computed once
With(v, Op(_)) == Op(v)

UpperLetters == <<"A", "B", "C", "D", "E", "F", "G", "H", "I", "J", "K", "L", "M",
                  "N", "O", "P", "Q", "R", "S", "T", "U", "V", "W", "X", "Y", "Z">>

LowerLetters == <<"a", "b", "c", "d", "e", "f", "g", "h", "i", "j", "k", "l", "m",
                  "n", "o", "p", "q", "r", "s", "t", "u", "v", "w", "x", "y", "z">>

LetterIndex(letters, c) ==
    LET at == {i \in 1..Len(letters) : letters[i] = c}
    IN IF at = {} THEN 0 ELSE CHOOSE i \in at : TRUE

ToLower(s) ==
    [i \in 1..Len(s) |->
        LET k == LetterIndex(UpperLetters, s[i]) IN IF k = 0 THEN s[i] ELSE LowerLetters[k]]

ToUpper(s) ==
    [i \in 1..Len(s) |->
        LET k == LetterIndex(LowerLetters, s[i]) IN IF k = 0 THEN s[i] ELSE UpperLetters[k]]

EqualFold(a, b) == ToLower(a) = ToLower(b)

\* unicode.IsSpace, on the characters the inputs spell
IsSpace(c) == c \in {" ", "\t", "\n"}

\* strings.TrimLeft(s, cutset)
RECURSIVE TrimLeftCutset(_, _)
TrimLeftCutset(s, cutset) ==
    IF s # <<>> /\ Head(s) \in cutset THEN TrimLeftCutset(Tail(s), cutset) ELSE s

\* strings.Trim(s, cutset)
RECURSIVE TrimCutset(_, _)
TrimCutset(s, cutset) ==
    IF s # <<>> /\ s[Len(s)] \in cutset THEN TrimCutset(SubSeq(s, 1, Len(s) - 1), cutset)
    ELSE TrimLeftCutset(s, cutset)

RECURSIVE TrimLeft(_)
TrimLeft(s) == IF s # <<>> /\ IsSpace(Head(s)) THEN TrimLeft(Tail(s)) ELSE s

RECURSIVE TrimRight(_)
TrimRight(s) ==
    IF s # <<>> /\ IsSpace(s[Len(s)]) THEN TrimRight(SubSeq(s, 1, Len(s) - 1)) ELSE s

TrimSpace(s) == TrimRight(TrimLeft(s))

Drop(s, n) == SubSeq(s, n + 1, Len(s))

HasPrefix(s, prefix) == Len(s) >= Len(prefix) /\ SubSeq(s, 1, Len(prefix)) = prefix

HasSuffix(s, suffix) == Len(s) >= Len(suffix) /\ Drop(s, Len(s) - Len(suffix)) = suffix

\* strings.Index: the 0-based position of the first occurrence, -1 if none
Index(s, substr) ==
    LET at == {i \in 0..(Len(s) - Len(substr)) : SubSeq(s, i + 1, i + Len(substr)) = substr}
    IN IF at = {} THEN -1 ELSE Min(at)

Contains(s, substr) == Index(s, substr) >= 0

ContainsAny(s, chars) == \E i \in 1..Len(s) : s[i] \in chars

RECURSIVE Split(_, _)
Split(s, sep) ==
    LET i == Index(s, <<sep>>)
    IN IF i < 0 THEN <<s>> ELSE <<SubSeq(s, 1, i)>> \o Split(Drop(s, i + 1), sep)

\* strings.Fields: the maximal runs of non-space characters
RECURSIVE Fields(_)
Fields(s) ==
    LET t == TrimLeft(s)
        spaces == {i \in 1..Len(t) : IsSpace(t[i])}
        n == IF spaces = {} THEN Len(t) ELSE Min(spaces) - 1
    IN IF t = <<>> THEN <<>> ELSE <<SubSeq(t, 1, n)>> \o Fields(Drop(t, n))

\* The length of the longest prefix of s whose characters are all in set
PrefixLen(s, set) ==
    LET stop == {i \in 1..Len(s) : s[i] \notin set}
    IN IF stop = {} THEN Len(s) ELSE Min(stop) - 1

\* ------------------------------------------------------------------------
\* strconv and time: decimal numbers (no exponent, no hexadecimal, no
\* Inf/NaN: the inputs below cannot spell them)

Digits == <<"0", "1", "2", "3", "4", "5", "6", "7", "8", "9">>

DigitSet == {Digits[i] : i \in 1..Len(Digits)}

DigitValue(c) == (CHOOSE i \in 1..Len(Digits) : Digits[i] = c) - 1

RECURSIVE Atoi(_)
Atoi(s) == IF s = <<>> THEN 0 ELSE Atoi(SubSeq(s, 1, Len(s) - 1)) * 10 + DigitValue(s[Len(s)])

FNeg(a) == [n |-> 0 - a.n, d |-> a.d]

Signed(s) == s # <<>> /\ s[1] \in {"+", "-"}

Unsigned(s) == IF Signed(s) THEN Tail(s) ELSE s

WithSign(s, v) == IF Signed(s) /\ s[1] = "-" THEN FNeg(v) ELSE v

\* The decimal digits[.digits] at the start of s: how many characters it
\* takes, whether it has a digit at all, and its value
Decimal(s) ==
    With(PrefixLen(s, DigitSet), LAMBDA n1 :
    With(n1 < Len(s) /\ s[n1 + 1] = ".", LAMBDA dot :
    With(IF dot THEN PrefixLen(Drop(s, n1 + 1), DigitSet) ELSE 0, LAMBDA n2 :
        [len |-> n1 + (IF dot THEN 1 + n2 ELSE 0),
         ok  |-> n1 + n2 > 0,
         val |-> Frac(Atoi(SubSeq(s, 1, n1)) * (10 ^ n2)
                        + Atoi(SubSeq(s, n1 + 2, n1 + 1 + n2)),
                      10 ^ n2)])))

\* strconv.ParseFloat(s, 64) on decimal spellings; the inputs below spell no
\* exponent, no hexadecimal number, no inf and no nan
ParseFloat(s) ==
    With(Unsigned(s), LAMBDA u :
    With(Decimal(u), LAMBDA dec :
        IF dec.ok /\ dec.len = Len(u)
        THEN [err |-> "nil", val |-> WithSign(s, dec.val)]
        ELSE [err |-> "invalid syntax", val |-> Float(0)]))

\* strconv.ParseInt(s, 10, 64)
ParseInt(s) ==
    With(Unsigned(s), LAMBDA u :
        IF u # <<>> /\ PrefixLen(u, DigitSet) = Len(u)
        THEN [err |-> "nil", val |-> IF Signed(s) /\ s[1] = "-" THEN 0 - Atoi(u) ELSE Atoi(u)]
        ELSE [err |-> "invalid syntax", val |-> 0])

\* int64(x) of a float64 x: truncation toward zero
Trunc(a) == IF a.n >= 0 THEN a.n \div a.d ELSE 0 - ((0 - a.n) \div a.d)

\* Durations are counted in seconds (time.Duration counts nanoseconds)
Second == 1
Minute == 60 * Second
Hour == 60 * Minute

\* What int64(x) yields for a float64 x outside the int64 range is left to
\* the implementation: the smallest int64 on amd64, the largest on arm64 for
\* a positive x.  A call that converts such an x returns a nil error and one
\* of these
Unspecified == [err |-> "nil", int64 |-> {"math.MinInt64", "math.MaxInt64"}]

\* The largest time.Duration, 2^63 - 1 nanoseconds, in whole minutes
MaxDurationMinutes == 153722867

\* val * hours * float64(time.Hour) is in the range of time.Duration
DurationHolds(val, hours) ==
    /\ val.n * hours * 60 <= MaxDurationMinutes * val.d
    /\ val.n * hours * 60 >= (0 - MaxDurationMinutes) * val.d

\* val * float64(1024^power) is in the range of int64, -2^63 .. 2^63 - 1,
\* where 2^63 is 8 * 1024^6.  The model's numbers stay below 2^31, so a
\* magnitude can leave the range with the multiplier 1024^4 only
Int64Holds(val, power) ==
    \/ power < 4
    \/ /\ val.n < 8 * 1024 * 1024 * val.d
       /\ val.n >= (0 - 8 * 1024 * 1024) * val.d

\* int64(val * float64(1024^power)) within the range.  A count of gigabytes
\* or terabytes is kept as its whole GiB and its remaining bytes, for it may
\* pass 2^31
BytesOfUnits(val, power) ==
    IF power < 3 THEN Trunc(FMul(val, Float(1024 ^ power)))
    ELSE With(FMul(val, Float(1024 ^ (power - 3))), LAMBDA gib :
            [GiB |-> Trunc(gib),
             B   |-> Trunc(FMul(FAdd(gib, Float(0 - Trunc(gib))), Float(1024 ^ 3)))])

\* time.ParseDuration's unitMap
UnitSeconds(unit) ==
    CASE unit = <<"h">> -> Float(Hour)
      [] unit = <<"m">> -> Float(Minute)
      [] unit = <<"s">> -> Float(Second)
      [] unit = <<"m", "s">> -> Frac(1, 1000)
      [] unit = <<"u", "s">> -> Frac(1, 1000000)
      [] unit = <<"n", "s">> -> Frac(1, 1000000000)
      [] OTHER -> Float(0)

\* The [0-9]*(\.[0-9]*)?[a-z]+ groups of time.ParseDuration, summed; a unit
\* name runs up to the next digit or point
RECURSIVE DurationGroups(_)
DurationGroups(s) ==
    IF s = <<>> THEN [err |-> "nil", val |-> Float(0)]
    ELSE
    With(Decimal(s), LAMBDA dec :
    With(Drop(s, dec.len), LAMBDA r :
    With(PrefixLen(r, {r[i] : i \in 1..Len(r)} \ (DigitSet \cup {"."})), LAMBDA ulen :
    With(UnitSeconds(SubSeq(r, 1, ulen)), LAMBDA seconds :
        IF ~dec.ok THEN [err |-> "invalid duration", val |-> Float(0)]
        ELSE IF ulen = 0 THEN [err |-> "missing unit", val |-> Float(0)]
        ELSE IF seconds = Float(0) THEN [err |-> "unknown unit", val |-> Float(0)]
        ELSE With(DurationGroups(Drop(r, ulen)), LAMBDA rest :
                IF rest.err # "nil" THEN rest
                ELSE [err |-> "nil", val |-> FAdd(FMul(dec.val, seconds), rest.val)])))))

\* time.ParseDuration(s)
ParseDuration(s) ==
    With(Unsigned(s), LAMBDA u :
        IF u = <<"0">> THEN [err |-> "nil", val |-> Float(0)]
        ELSE IF u = <<>> THEN [err |-> "invalid duration", val |-> Float(0)]
        ELSE With(DurationGroups(u), LAMBDA groups :
                IF groups.err # "nil" THEN groups
                ELSE [err |-> "nil", val |-> WithSign(s, groups.val)]))

\* ------------------------------------------------------------------------
\* time.Parse on the layouts of extractTimestamp: a date, the layout's
\* separator, a time of day, an optional fraction of a second (accepted
\* after the seconds whether or not the layout spells one) and, where the
\* layout has a zone, "Z" or a signed hh:mm.  (time.Parse also takes an hour
\* of one digit; the inputs spell two)

TwoDigits(s, at, low, high) ==
    /\ Len(s) >= at + 1
    /\ s[at] \in DigitSet /\ s[at + 1] \in DigitSet
    /\ Atoi(SubSeq(s, at, at + 1)) \in low..high

\* The days of a month (time.Parse rejects a day the month does not have)
DaysIn(year, month) ==
    IF month \in {4, 6, 9, 11} THEN 30
    ELSE IF month # 2 THEN 31
    ELSE IF year % 4 = 0 /\ (year % 100 # 0 \/ year % 400 = 0) THEN 29 ELSE 28

\* The length of the fraction of a second that starts at position at
FractionLen(s, at) ==
    IF Len(s) > at /\ s[at] \in {".", ","} /\ s[at + 1] \in DigitSet
    THEN 1 + PrefixLen(Drop(s, at), DigitSet)
    ELSE 0

IsZone(z) ==
    \/ z = <<"Z">>
    \/ /\ Len(z) = 6
       /\ z[1] \in {"+", "-"}
       /\ TwoDigits(z, 2, 0, 23)
       /\ z[4] = ":"
       /\ TwoDigits(z, 5, 0, 59)

\* time.Parse(layout, value) returns a nil error
Parses(layout, value) ==
    /\ Len(value) >= 19
    /\ PrefixLen(value, DigitSet) = 4
    /\ value[5] = "-"
    /\ TwoDigits(value, 6, 1, 12)
    /\ value[8] = "-"
    /\ TwoDigits(value, 9, 1, DaysIn(Atoi(SubSeq(value, 1, 4)), Atoi(SubSeq(value, 6, 7))))
    /\ value[11] = layout.sep
    /\ TwoDigits(value, 12, 0, 23)
    /\ value[14] = ":"
    /\ TwoDigits(value, 15, 0, 59)
    /\ value[17] = ":"
    /\ TwoDigits(value, 18, 0, 59)
    /\ With(Drop(value, 19 + FractionLen(value, 20)), LAMBDA zone :
            IF layout.zone THEN IsZone(zone) ELSE zone = <<>>)

\* log_format.go:74-79: RFC3339Nano, RFC3339, "2006-01-02 15:04:05" and
\* "2006-01-02 15:04:05.000"
layouts ==
    <<[sep |-> "T", zone |-> TRUE],
      [sep |-> "T", zone |-> TRUE],
      [sep |-> " ", zone |-> FALSE],
      [sep |-> " ", zone |-> FALSE]>>

\* ------------------------------------------------------------------------
\* internal/logs (log_format.go:8-109)

\* log_format.go:8-18
logLevelColors ==
    {[level |-> <<"T", "R", "A", "C", "E">>, color |-> <<"l", "i", "g", "h", "t", "b", "l", "u", "e">>],
     [level |-> <<"D", "E", "B", "U", "G">>, color |-> <<"b", "l", "u", "e">>],
     [level |-> <<"I", "N", "F", "O">>, color |-> <<"g", "r", "e", "e", "n">>],
     [level |-> <<"W", "A", "R", "N">>, color |-> <<"y", "e", "l", "l", "o", "w">>],
     [level |-> <<"W", "A", "R", "N", "I", "N", "G">>, color |-> <<"y", "e", "l", "l", "o", "w">>],
     [level |-> <<"E", "R", "R", "O", "R">>, color |-> <<"r", "e", "d">>],
     [level |-> <<"E", "R", "R">>, color |-> <<"r", "e", "d">>],
     [level |-> <<"F", "A", "T", "A", "L">>, color |-> <<"r", "e", "d">>],
     [level |-> <<"P", "A", "N", "I", "C">>, color |-> <<"r", "e", "d">>]}

Levels == {entry.level : entry \in logLevelColors}

ColorOf(level) == (CHOOSE entry \in logLevelColors : entry.level = level).color

Blanks == {" ", "\t"}

\* log_format.go:66-87
extractTimestamp(line) ==
    With(TrimLeftCutset(line, Blanks), LAMBDA trimmed :
    With(Fields(trimmed), LAMBDA fields :
        IF Len(fields) = 0 THEN [ts |-> <<>>, remainder |-> line]
        ELSE IF \E k \in 1..Len(layouts) : Parses(layouts[k], fields[1])
        THEN [ts |-> fields[1],
              remainder |-> TrimLeftCutset(Drop(trimmed, Len(fields[1])), Blanks)]
        ELSE [ts |-> <<>>, remainder |-> line]))

\* log_format.go:89-109
extractLevel(line) ==
    With(TrimLeftCutset(line, Blanks), LAMBDA trimmed :
    With(Fields(trimmed), LAMBDA fields :
        IF trimmed = <<>> \/ Len(fields) = 0 THEN [level |-> <<>>, rest |-> trimmed]
        ELSE With(ToUpper(TrimCutset(fields[1], {"[", "]", ":"})), LAMBDA upper :
                IF upper \in Levels
                THEN [level |-> upper,
                      rest |-> TrimLeftCutset(Drop(trimmed, Len(fields[1])),
                                              {" ", "\t", "-", ":"})]
                ELSE [level |-> <<>>, rest |-> trimmed])))

\* log_format.go:43-64
formatLogLine(line) ==
    With(extractTimestamp(line), LAMBDA stamp :
    With(extractLevel(stamp.remainder), LAMBDA lvl :
        (IF stamp.ts # <<>> THEN <<"[", "g", "r", "a", "y", "]">> \o stamp.ts \o <<"[", "-", "]", " ">> ELSE <<>>)
        \o (IF lvl.level # <<>>
            THEN <<"[">> \o ColorOf(lvl.level) \o <<":", ":", "b", "]">> \o lvl.level \o <<"[", "-", "]", " ">>
            ELSE <<>>)
        \o lvl.rest))

\* log_format.go:27-40: what the loop has written after the lines from k on
RECURSIVE ColorizeLines(_, _)
ColorizeLines(lines, k) ==
    IF k > Len(lines) THEN <<>>
    ELSE (IF lines[k] = <<>> THEN <<>> ELSE formatLogLine(lines[k]))
         \o (IF k < Len(lines) THEN <<"\n">> ELSE <<>>)
         \o ColorizeLines(lines, k + 1)

\* log_format.go:21-41
Colorize(raw) ==
    IF TrimSpace(raw) = <<>> THEN raw ELSE ColorizeLines(Split(raw, "\n"), 1)

\* ------------------------------------------------------------------------
\* regexp: the patterns the inputs below can spell are literals, escaped
\* metacharacters, the point that stands for any character, the (?i) flag
\* and a group that is opened and never closed

MetaChars == {"\\", ".", "+", "*", "?", "(", ")", "|", "[", "]", "{", "}", "^", "$"}

RECURSIVE QuoteMeta(_)
QuoteMeta(s) ==
    IF s = <<>> THEN <<>>
    ELSE (IF Head(s) \in MetaChars THEN <<"\\", Head(s)>> ELSE <<Head(s)>>) \o QuoteMeta(Tail(s))

FoldFlag == <<"(", "?", "i", ")">>

NilRegexp == [nil |-> TRUE, fold |-> FALSE, literal |-> <<>>]

\* What a point that is not escaped stands for
AnyChar == "any"

\* The characters a pattern body stands for, AnyChar for a point.  No input
\* closes a group, so a "(" that is not escaped is a syntax error
RECURSIVE PatternLiteral(_)
PatternLiteral(body) ==
    IF body = <<>> THEN [err |-> "nil", literal |-> <<>>]
    ELSE IF Head(body) = "\\" /\ ~(Len(body) >= 2 /\ body[2] \in MetaChars)
    THEN [err |-> "invalid escape sequence", literal |-> <<>>]
    ELSE IF Head(body) = "("
    THEN [err |-> "missing closing )", literal |-> <<>>]
    ELSE IF Head(body) = "."
    THEN With(PatternLiteral(Tail(body)), LAMBDA rest :
            [err |-> rest.err, literal |-> <<AnyChar>> \o rest.literal])
    ELSE IF Head(body) # "\\" /\ Head(body) \in MetaChars
    THEN [err |-> "outside the modelled patterns", literal |-> <<>>]
    ELSE With(IF Head(body) = "\\" THEN 2 ELSE 1, LAMBDA n :
         With(PatternLiteral(Drop(body, n)), LAMBDA rest :
            [err |-> rest.err, literal |-> <<body[n]>> \o rest.literal]))

\* regexp.Compile(pattern)
Compile(pattern) ==
    With(HasPrefix(pattern, FoldFlag), LAMBDA fold :
    With(PatternLiteral(IF fold THEN Drop(pattern, Len(FoldFlag)) ELSE pattern), LAMBDA parsed :
        IF parsed.err # "nil" THEN [err |-> parsed.err, re |-> NilRegexp]
        ELSE [err |-> "nil", re |-> [nil |-> FALSE, fold |-> fold, literal |-> parsed.literal]]))

\* (*Regexp).MatchString: an unanchored search
MatchString(re, s) ==
    With(IF re.fold THEN ToLower(s) ELSE s, LAMBDA text :
    With(IF re.fold THEN ToLower(re.literal) ELSE re.literal, LAMBDA chars :
        \E at \in 0..(Len(text) - Len(chars)) :
            \A j \in 1..Len(chars) : chars[j] = AnyChar \/ chars[j] = text[at + j]))

\* ------------------------------------------------------------------------
\* internal/filter: types (filter.go:13-64)

FilterAge == <<"a", "g", "e">>
FilterStatus == <<"s", "t", "a", "t", "u", "s">>
FilterState == <<"s", "t", "a", "t", "e">>
FilterName == <<"n", "a", "m", "e">>
FilterTag == <<"t", "a", "g">>
FilterSize == <<"s", "i", "z", "e">>
FilterDriver == <<"d", "r", "i", "v", "e", "r">>
FilterScope == <<"s", "c", "o", "p", "e">>

OpEqual == <<"=">>
OpNotEqual == <<"!", "=">>
OpGreater == <<">">>
OpLess == <<"<">>
OpGreaterEqual == <<">", "=">>
OpLessEqual == <<"<", "=">>
OpContains == <<"~">>
OpNotContains == <<"!", "~">>
OpRegex == <<"=", "~">>

\* var c Criterion: the zero value
ZeroCriterion ==
    [Type |-> <<>>, Op |-> <<>>, Value |-> <<>>, Duration |-> Float(0), Bytes |-> 0,
     Regex |-> NilRegexp]

\* filter.New()
New == [nil |-> FALSE, Criteria |-> <<>>, SearchTerm |-> <<>>]

\* The nil *Filter
NilFilter == [nil |-> TRUE, Criteria |-> <<>>, SearchTerm |-> <<>>]

NoError == [failed |-> FALSE, part |-> <<>>, cause |-> "nil"]

\* strings.Join
RECURSIVE JoinParts(_, _)
JoinParts(parts, sep) ==
    IF parts = <<>> THEN <<>>
    ELSE IF Len(parts) = 1 THEN parts[1]
    ELSE parts[1] \o sep \o JoinParts(Tail(parts), sep)

\* filter.go:447-461
String(f) ==
    IF f.SearchTerm # <<>> THEN f.SearchTerm
    ELSE IF Len(f.Criteria) = 0 THEN <<>>
    ELSE JoinParts([i \in 1..Len(f.Criteria) |->
                        f.Criteria[i].Type \o f.Criteria[i].Op \o f.Criteria[i].Value],
                   <<",", " ">>)

\* filter.go:463-466
IsEmpty(f) == Len(f.Criteria) = 0 /\ f.SearchTerm = <<>>

\* ------------------------------------------------------------------------
\* internal/filter: the parser (filter.go:76-254)

\* filter.go:179-217
parseDuration(str) ==
    With(TrimSpace(str), LAMBDA s :
    With(IF HasSuffix(s, <<"d">>) THEN [len |-> 1, hours |-> 24]
         ELSE IF HasSuffix(s, <<"w">>) THEN [len |-> 1, hours |-> 7 * 24]
         ELSE IF HasSuffix(s, <<"m", "o">>) THEN [len |-> 2, hours |-> 30 * 24]
         ELSE IF HasSuffix(s, <<"y">>) THEN [len |-> 1, hours |-> 365 * 24]
         ELSE [len |-> 0, hours |-> 0], LAMBDA custom :
        IF s = <<>> THEN [err |-> "empty duration", val |-> Float(0)]
        ELSE IF custom.len = 0 THEN ParseDuration(s)
        ELSE With(ParseFloat(SubSeq(s, 1, Len(s) - custom.len)), LAMBDA val :
                IF val.err # "nil" THEN [err |-> val.err, val |-> Float(0)]
                ELSE IF ~DurationHolds(val.val, custom.hours) THEN Unspecified
                ELSE [err |-> "nil", val |-> FMul(val.val, Float(custom.hours * Hour))])))

\* filter.go:226-235: the multiplier of a suffix is 1024 ^ power
multipliers ==
    <<[suffix |-> <<"T", "B">>, power |-> 4],
      [suffix |-> <<"G", "B">>, power |-> 3],
      [suffix |-> <<"M", "B">>, power |-> 2],
      [suffix |-> <<"K", "B">>, power |-> 1],
      [suffix |-> <<"B">>, power |-> 0]>>

\* filter.go:220-254
parseBytes(str) ==
    With(TrimSpace(ToUpper(str)), LAMBDA s :
    With({k \in 1..Len(multipliers) : HasSuffix(s, multipliers[k].suffix)}, LAMBDA hits :
        IF s = <<>> THEN [err |-> "empty size", val |-> 0]
        ELSE IF hits # {}
        THEN With(multipliers[Min(hits)], LAMBDA m :
             With(ParseFloat(TrimSpace(SubSeq(s, 1, Len(s) - Len(m.suffix)))), LAMBDA val :
                IF val.err # "nil" THEN [err |-> val.err, val |-> 0]
                ELSE IF ~Int64Holds(val.val, m.power) THEN Unspecified
                ELSE [err |-> "nil", val |-> BytesOfUnits(val.val, m.power)]))
        ELSE With(ParseInt(s), LAMBDA val :
                IF val.err # "nil" THEN [err |-> "invalid size format", val |-> 0]
                ELSE [err |-> "nil", val |-> val.val])))

\* Mutant: the one-character operators are tried first
operatorsShortestFirst ==
    <<OpEqual, OpGreater, OpLess, OpContains, OpGreaterEqual, OpLessEqual, OpNotEqual,
      OpNotContains, OpRegex>>

\* filter.go:115
operators ==
    <<OpGreaterEqual, OpLessEqual, OpNotEqual, OpNotContains, OpRegex, OpEqual,
      OpGreater, OpLess, OpContains>>

\* filter.go:121-129: the operators found at a position greater than zero
FoundOperators(clause) == {k \in 1..Len(operators) : Index(clause, operators[k]) > 0}

\* Mutant: a pattern is compiled for =~ only
compileRegexOnlyForRegexOp(c) ==
    IF c.Op = OpRegex /\ Compile(c.Value).err # "nil" THEN [c |-> c, err |-> "compile regex"]
    ELSE IF c.Op = OpRegex THEN [c |-> [c EXCEPT !.Regex = Compile(c.Value).re], err |-> "nil"]
    ELSE [c |-> c, err |-> "nil"]

\* Mutant: the value of ~ and !~ is compiled as it is
compileRegexUnquoted(c) ==
    IF c.Op \in {OpRegex, OpContains, OpNotContains}
    THEN With(IF c.Op \in {OpContains, OpNotContains}
              THEN FoldFlag \o c.Value
              ELSE c.Value, LAMBDA pattern :
         With(Compile(pattern), LAMBDA re :
            IF re.err # "nil" THEN [c |-> c, err |-> "compile regex"]
            ELSE [c |-> [c EXCEPT !.Regex = re.re], err |-> "nil"]))
    ELSE [c |-> c, err |-> "nil"]

\* filter.go:162-173
compileRegex(c) ==
    IF c.Op \in {OpRegex, OpContains, OpNotContains}
    THEN With(IF c.Op \in {OpContains, OpNotContains}
              THEN FoldFlag \o QuoteMeta(c.Value)
              ELSE c.Value, LAMBDA pattern :
         With(Compile(pattern), LAMBDA re :
            IF re.err # "nil" THEN [c |-> c, err |-> "compile regex"]
            ELSE [c |-> [c EXCEPT !.Regex = re.re], err |-> "nil"]))
    ELSE [c |-> c, err |-> "nil"]

\* Mutant: a value that does not parse leaves the criterion as it is
parseSpecialValueLenient(c) ==
    IF c.Type = FilterAge /\ parseDuration(c.Value).err = "nil"
    THEN [c |-> [c EXCEPT !.Duration = parseDuration(c.Value).val], err |-> "nil"]
    ELSE IF c.Type = FilterSize /\ parseBytes(c.Value).err = "nil"
    THEN [c |-> [c EXCEPT !.Bytes = parseBytes(c.Value).val], err |-> "nil"]
    ELSE [c |-> c, err |-> "nil"]

\* filter.go:146-160
parseSpecialValue(c) ==
    IF c.Type = FilterAge
    THEN With(parseDuration(c.Value), LAMBDA dur :
            IF dur.err # "nil" THEN [c |-> c, err |-> "parse age duration"]
            ELSE [c |-> [c EXCEPT !.Duration = dur.val], err |-> "nil"])
    ELSE IF c.Type = FilterSize
    THEN With(parseBytes(c.Value), LAMBDA bytes :
            IF bytes.err # "nil" THEN [c |-> c, err |-> "parse size"]
            ELSE [c |-> [c EXCEPT !.Bytes = bytes.val], err |-> "nil"])
    ELSE [c |-> c, err |-> "nil"]

\* filter.go:111-176
parseCriterion(clause) ==
    With(FoundOperators(clause), LAMBDA found :
        IF found = {} THEN [c |-> ZeroCriterion, err |-> "no valid operator found"]
        ELSE
        With(operators[Min(found)], LAMBDA op :
        With(Index(clause, op), LAMBDA splitIdx :
        With(TrimSpace(SubSeq(clause, 1, splitIdx)), LAMBDA filterType :
        With(TrimSpace(Drop(clause, splitIdx + Len(op))), LAMBDA value :
            IF filterType = <<>> \/ value = <<>>
            THEN [c |-> ZeroCriterion, err |-> "invalid filter format"]
            ELSE With(parseSpecialValue([ZeroCriterion EXCEPT
                          !.Type = filterType, !.Op = op, !.Value = value]), LAMBDA special :
                    IF special.err # "nil" THEN special ELSE compileRegex(special.c)))))))

\* Mutant: a part that fails to parse is skipped
RECURSIVE parsePartsSkipping(_, _, _)
parsePartsSkipping(parts, k, f) ==
    IF k > Len(parts) THEN [f |-> f, err |-> NoError]
    ELSE
    With(TrimSpace(parts[k]), LAMBDA part :
        IF part = <<>> THEN parsePartsSkipping(parts, k + 1, f)
        ELSE With(parseCriterion(part), LAMBDA criterion :
                IF criterion.err # "nil" THEN parsePartsSkipping(parts, k + 1, f)
                ELSE parsePartsSkipping(parts, k + 1,
                        [f EXCEPT !.Criteria = Append(f.Criteria, criterion.c)])))

\* filter.go:94-108: the loop over the parts, from part k on
RECURSIVE parseParts(_, _, _)
parseParts(parts, k, f) ==
    IF k > Len(parts) THEN [f |-> f, err |-> NoError]
    ELSE
    With(TrimSpace(parts[k]), LAMBDA part :
        IF part = <<>> THEN parseParts(parts, k + 1, f)
        ELSE With(parseCriterion(part), LAMBDA criterion :
                IF criterion.err # "nil"
                THEN [f |-> NilFilter,
                      err |-> [failed |-> TRUE, part |-> part, cause |-> criterion.err]]
                ELSE parseParts(parts, k + 1,
                                [f EXCEPT !.Criteria = Append(f.Criteria, criterion.c)])))

OperatorChars == {"=", ">", "<", "~"}

\* Mutant: the input is not trimmed
ParseFilterUntrimmed(text) ==
    IF text = <<>> THEN [f |-> New, err |-> NoError]
    ELSE IF ~ContainsAny(text, OperatorChars)
    THEN [f |-> [New EXCEPT !.SearchTerm = ToLower(text)], err |-> NoError]
    ELSE parseParts(Split(text, ","), 1, New)

\* Mutant: the search term is stored as typed
ParseFilterAsTyped(text) ==
    With(TrimSpace(text), LAMBDA trimmed :
        IF trimmed = <<>> THEN [f |-> New, err |-> NoError]
        ELSE IF ~ContainsAny(trimmed, OperatorChars)
        THEN [f |-> [New EXCEPT !.SearchTerm = trimmed], err |-> NoError]
        ELSE parseParts(Split(trimmed, ","), 1, New))

\* filter.go:76-109
ParseFilter(text) ==
    With(TrimSpace(text), LAMBDA trimmed :
        IF trimmed = <<>> THEN [f |-> New, err |-> NoError]
        ELSE IF ~ContainsAny(trimmed, OperatorChars)
        THEN [f |-> [New EXCEPT !.SearchTerm = ToLower(trimmed)], err |-> NoError]
        ELSE parseParts(Split(trimmed, ","), 1, New))

\* ------------------------------------------------------------------------
\* internal/filter: matching (filter.go:256-444).  time.Since(t) is now - t
\* for the clock reading now; Created = 0 is the zero time.Time.

FEq(a, b) == a.n * b.d = b.n * a.d

FLess(a, b) == a.n * b.d < b.n * a.d

\* Mutant: an operator that is not one of the five holds
compareStringOtherHolds(actual, op, expected, regex) ==
    CASE op = OpEqual -> EqualFold(actual, expected)
      [] op = OpNotEqual -> ~EqualFold(actual, expected)
      [] op = OpContains -> ~regex.nil /\ MatchString(regex, actual)
      [] op = OpNotContains -> regex.nil \/ ~MatchString(regex, actual)
      [] op = OpRegex -> ~regex.nil /\ MatchString(regex, actual)
      [] OTHER -> TRUE

\* filter.go:410-425
compareString(actual, op, expected, regex) ==
    CASE op = OpEqual -> EqualFold(actual, expected)
      [] op = OpNotEqual -> ~EqualFold(actual, expected)
      [] op = OpContains -> ~regex.nil /\ MatchString(regex, actual)
      [] op = OpNotContains -> regex.nil \/ ~MatchString(regex, actual)
      [] op = OpRegex -> ~regex.nil /\ MatchString(regex, actual)
      [] OTHER -> FALSE

\* Mutant: > and < also hold for equal numbers
compareNumericNonStrict(actual, op, expected) ==
    CASE op = OpEqual -> FEq(actual, expected)
      [] op = OpNotEqual -> ~FEq(actual, expected)
      [] op \in {OpGreater, OpGreaterEqual} -> ~FLess(actual, expected)
      [] op \in {OpLess, OpLessEqual} -> ~FLess(expected, actual)
      [] OTHER -> FALSE

\* filter.go:427-444
compareNumeric(actual, op, expected) ==
    CASE op = OpEqual -> FEq(actual, expected)
      [] op = OpNotEqual -> ~FEq(actual, expected)
      [] op = OpGreater -> FLess(expected, actual)
      [] op = OpLess -> FLess(actual, expected)
      [] op = OpGreaterEqual -> ~FLess(actual, expected)
      [] op = OpLessEqual -> ~FLess(expected, actual)
      [] OTHER -> FALSE

\* Mutant: a field a container does not have excludes the container
matchContainerCriterionStrict(c, criterion, now) ==
    CASE criterion.Type = FilterAge ->
            compareNumeric(Float(now - c.Created), criterion.Op, criterion.Duration)
      [] criterion.Type = FilterStatus ->
            compareString(c.Status, criterion.Op, criterion.Value, criterion.Regex)
      [] criterion.Type = FilterState ->
            compareString(c.State, criterion.Op, criterion.Value, criterion.Regex)
      [] criterion.Type = FilterName ->
            compareString(c.Name, criterion.Op, criterion.Value, criterion.Regex)
      [] OTHER -> FALSE

\* filter.go:277-291
matchContainerCriterion(c, criterion, now) ==
    CASE criterion.Type = FilterAge ->
            compareNumeric(Float(now - c.Created), criterion.Op, criterion.Duration)
      [] criterion.Type = FilterStatus ->
            compareString(c.Status, criterion.Op, criterion.Value, criterion.Regex)
      [] criterion.Type = FilterState ->
            compareString(c.State, criterion.Op, criterion.Value, criterion.Regex)
      [] criterion.Type = FilterName ->
            compareString(c.Name, criterion.Op, criterion.Value, criterion.Regex)
      [] OTHER -> TRUE

\* Mutant: the fields are searched as they are, not lower-cased
MatchContainerCaseSensitive(f, c, now) ==
    IF f.SearchTerm # <<>>
    THEN \/ Contains(c.Name, f.SearchTerm)
         \/ Contains(c.Image, f.SearchTerm)
         \/ Contains(c.Status, f.SearchTerm)
         \/ Contains(c.State, f.SearchTerm)
         \/ Contains(c.ID, f.SearchTerm)
    ELSE \A i \in 1..Len(f.Criteria) : matchContainerCriterion(c, f.Criteria[i], now)

\* Mutant: one matching criterion is enough
MatchContainerAnyCriterion(f, c, now) ==
    IF f.SearchTerm # <<>>
    THEN \/ Contains(ToLower(c.Name), f.SearchTerm)
         \/ Contains(ToLower(c.Image), f.SearchTerm)
         \/ Contains(ToLower(c.Status), f.SearchTerm)
         \/ Contains(ToLower(c.State), f.SearchTerm)
         \/ Contains(ToLower(c.ID), f.SearchTerm)
    ELSE \E i \in 1..Len(f.Criteria) : matchContainerCriterion(c, f.Criteria[i], now)

\* filter.go:257-275
MatchContainer(f, c, now) ==
    IF f.SearchTerm # <<>>
    THEN \/ Contains(ToLower(c.Name), f.SearchTerm)
         \/ Contains(ToLower(c.Image), f.SearchTerm)
         \/ Contains(ToLower(c.Status), f.SearchTerm)
         \/ Contains(ToLower(c.State), f.SearchTerm)
         \/ Contains(ToLower(c.ID), f.SearchTerm)
    ELSE \A i \in 1..Len(f.Criteria) : matchContainerCriterion(c, f.Criteria[i], now)

\* filter.go:312-333
matchImageCriterion(img, criterion, now) ==
    CASE criterion.Type = FilterAge ->
            compareNumeric(Float(now - img.Created), criterion.Op, criterion.Duration)
      [] criterion.Type \in {FilterName, FilterTag} ->
            compareString(img.Tag, criterion.Op, criterion.Value, criterion.Regex)
      [] criterion.Type = FilterSize ->
            With(Fields(img.Size), LAMBDA sizeStr :
                IF Len(sizeStr) < 1 THEN TRUE
                ELSE With(ParseFloat(sizeStr[1]), LAMBDA val :
                        IF val.err # "nil" THEN TRUE
                        ELSE compareNumeric(Float(Trunc(FMul(val.val, Float(1024 * 1024)))),
                                            criterion.Op, Float(criterion.Bytes))))
      [] OTHER -> TRUE

\* filter.go:294-310
MatchImage(f, img, now) ==
    IF f.SearchTerm # <<>>
    THEN \/ Contains(ToLower(img.Tag), f.SearchTerm)
         \/ Contains(ToLower(img.ID), f.SearchTerm)
         \/ Contains(ToLower(img.Size), f.SearchTerm)
    ELSE \A i \in 1..Len(f.Criteria) : matchImageCriterion(img, f.Criteria[i], now)

\* filter.go:355-372
matchNetworkCriterion(net, criterion, now) ==
    CASE criterion.Type = FilterAge ->
            IF net.Created # 0
            THEN compareNumeric(Float(now - net.Created), criterion.Op, criterion.Duration)
            ELSE TRUE
      [] criterion.Type = FilterName ->
            compareString(net.Name, criterion.Op, criterion.Value, criterion.Regex)
      [] criterion.Type = FilterDriver ->
            compareString(net.Driver, criterion.Op, criterion.Value, criterion.Regex)
      [] criterion.Type = FilterScope ->
            compareString(net.Scope, criterion.Op, criterion.Value, criterion.Regex)
      [] OTHER -> TRUE

\* filter.go:336-353
MatchNetwork(f, net, now) ==
    IF f.SearchTerm # <<>>
    THEN \/ Contains(ToLower(net.Name), f.SearchTerm)
         \/ Contains(ToLower(net.ID), f.SearchTerm)
         \/ Contains(ToLower(net.Driver), f.SearchTerm)
         \/ Contains(ToLower(net.Scope), f.SearchTerm)
    ELSE \A i \in 1..Len(f.Criteria) : matchNetworkCriterion(net, f.Criteria[i], now)

\* filter.go:393-408
matchVolumeCriterion(vol, criterion, now) ==
    CASE criterion.Type = FilterAge ->
            IF vol.Created # 0
            THEN compareNumeric(Float(now - vol.Created), criterion.Op, criterion.Duration)
            ELSE TRUE
      [] criterion.Type = FilterName ->
            compareString(vol.Name, criterion.Op, criterion.Value, criterion.Regex)
      [] criterion.Type = FilterDriver ->
            compareString(vol.Driver, criterion.Op, criterion.Value, criterion.Regex)
      [] OTHER -> TRUE

\* filter.go:375-391
MatchVolume(f, vol, now) ==
    IF f.SearchTerm # <<>>
    THEN \/ Contains(ToLower(vol.Name), f.SearchTerm)
         \/ Contains(ToLower(vol.Driver), f.SearchTerm)
         \/ Contains(ToLower(vol.Mountpoint), f.SearchTerm)
    ELSE \A i \in 1..Len(f.Criteria) : matchVolumeCriterion(vol, f.Criteria[i], now)

NoMatch == [kind |-> "none", record |-> <<>>, result |-> FALSE]

\* No text has been typed
FilterIdle ==
    /\ fpc = "idle"
    /\ input = <<>>
    /\ filter = NilFilter
    /\ ferr = NoError
    /\ matched = NoMatch

\* ------------------------------------------------------------------------
\* internal/ui: the values of a UI (log_format.go:166-207)

Views == {"containers", "images", "networks", "volumes"}

NoLists == [k \in Views |-> <<>>]

\* log_format.go:438-453, in the list view
updateStatusBarText(mode, f) ==
    IF mode THEN [text |-> "filterStatusText", detail |-> <<>>]
    ELSE IF ~IsEmpty(f) THEN [text |-> "Filter: ", detail |-> String(f)]
    ELSE [text |-> "tableStatusText", detail |-> <<>>]

\* log_format.go:472-478
showLoading(title) == [title |-> title, cells |-> "Loading...", rows |-> <<>>]

\* No UI has been constructed
UIIdle ==
    /\ uiFilter = New
    /\ filterInput = <<>>
    /\ filterMode = FALSE
    /\ statusBar = updateStatusBarText(FALSE, New)
    /\ currentView = "containers"
    /\ table = showLoading("containers")
    /\ selection = 0
    /\ lists = NoLists
    /\ loads = <<>>

NoOutcome == [err |-> "none"]

CallIdle ==
    /\ callee = ""
    /\ argument = <<>>
    /\ outcome = NoOutcome

\* No render callback is running
NoPass == [kind |-> "", selectedRow |-> 0, records |-> <<>>, at |-> 0, filtered |-> <<>>]

\* log_format.go:219-225: the detail view as Initialize leaves it
NoDetail == [title |-> " Details ", resource |-> <<>>, text |-> ""]

\* The list view, with no callback running and no action under way
RowIdle ==
    /\ rendering = NoPass
    /\ viewMode = "list"
    /\ detailView = NoDetail
    /\ asyncActions = <<>>

\* ------------------------------------------------------------------------
\* ListContainers (part_001:111-195)

Sentinel == "-"

IdOf(i) == "c" \o ToString(i)

Ids == {IdOf(i) : i \in 1..MaxContainers}

ContainerStates == {"running", "exited"}

\* What ContainerList may return: any list of containers with distinct IDs
Listings ==
    UNION {[1..n -> ContainerStates] : n \in 0..MaxContainers}

Listing(states) == [i \in 1..Len(states) |-> [ID |-> IdOf(i), State |-> states[i]]]

\* The one stats payload the runtime reports for a container in this model:
\* every container has figures of its own, so a record's metric strings
\* tell whose sample they were computed from.
PositionOf(id) == CHOOSE i \in 1..MaxContainers : IdOf(i) = id

StatsPayload(id) ==
    [CPUStats    |-> [CPUUsage |-> [TotalUsage |-> PositionOf(id), PercpuUsage |-> <<>>],
                      SystemUsage |-> 4, OnlineCPUs |-> 1],
     PreCPUStats |-> [CPUUsage |-> [TotalUsage |-> 0], SystemUsage |-> 0],
     MemoryStats |-> [Usage |-> PositionOf(id), Limit |-> 8],
     Networks    |-> <<[RxBytes |-> PositionOf(id) * MiB, TxBytes |-> MiB \div 2]>>]

\* What a successful getContainerStatsWithContext(statsCtx, id) returns
StatsOf == [id \in Ids |-> getContainerStatsWithContext(StatsPayload(id))]

NoStats == [CPU |-> "", Memory |-> "", NetIO |-> ""]

NoComputed == [cpuPercent |-> Float(0), memPercent |-> Float(0)]

\* part_001:145-157: the record appended for one listed container
ContainerInfo(ctr) ==
    [ID |-> ctr.ID, State |-> ctr.State,
     CPU |-> Sentinel, Memory |-> Sentinel, NetIO |-> Sentinel]

\* Mutant: each record is put in front of the list instead of appended
BuildResultPrepended(ctrs) ==
    [i \in 1..Len(ctrs) |-> ContainerInfo(ctrs[Len(ctrs) + 1 - i])]

\* part_001:120-158: the loop that builds result, one append per container
BuildResult(ctrs) == [i \in 1..Len(ctrs) |-> ContainerInfo(ctrs[i])]

\* Mutant: the state test is left out
IsRunningAnyState(ctr) == TRUE

\* part_001:160
IsRunning(ctr) == ctr.State = "running"

RunningIds(ctrs) == {ctrs[i].ID : i \in {j \in 1..Len(ctrs) : IsRunning(ctrs[j])}}

\* part_001:121,160-162: runningContainers[ctr.ID] = i, a later entry for the
\* same ID replacing an earlier one
BuildRunning(ctrs) ==
    [id \in RunningIds(ctrs) |->
        CHOOSE i \in 1..Len(ctrs) :
            /\ ctrs[i].ID = id /\ IsRunning(ctrs[i])
            /\ \A j \in (i+1)..Len(ctrs) : ~(ctrs[j].ID = id /\ IsRunning(ctrs[j]))]

Running == DOMAIN runningContainers

Spawned == {id \in Ids : wpc[id] # "none"}

InFlight == {id \in Ids : wpc[id] = "fetch"}

LcInit ==
    /\ pc = "list"
    /\ lerr = "none"
    /\ containers = <<>>
    /\ result = <<>>
    /\ runningContainers = <<>>
    /\ wpc = [id \in Ids |-> "none"]
    /\ windex = [id \in Ids |-> 0]
    /\ wstats = [id \in Ids |-> NoStats]
    /\ werr = [id \in Ids |-> "none"]
    /\ wrem = [id \in Ids |-> 0]
    /\ sem = 0
    /\ mu = ""
    /\ wg = 0
    /\ elapsed = 0
    /\ ret = [returned |-> FALSE, list |-> <<>>, err |-> "nil"]

Init ==
    /\ LcInit
    /\ spc = "idle"
    /\ payload = StatsPayload(IdOf(1))
    /\ computed = NoComputed
    /\ stats = NoStats
    /\ FilterIdle
    /\ UIIdle
    /\ CallIdle
    /\ RowIdle

\* Mutant: the listing error is dropped and an empty result returned
ContainerListErrorDropped ==
    /\ pc = "list"
    /\ pc' = "returned"
    /\ lerr' = "list error"
    /\ ret' = [returned |-> TRUE, list |-> <<>>, err |-> "nil"]
    /\ UNCHANGED <<containers, result, runningContainers, wpc, windex, wstats,
                   werr, wrem, sem, mu, wg, elapsed>>

\* part_001:115-118: the listing call fails
ContainerListFails ==
    /\ pc = "list"
    /\ pc' = "returned"
    /\ lerr' = "list error"
    /\ ret' = [returned |-> TRUE, list |-> <<>>, err |-> "list error"]
    /\ UNCHANGED <<containers, result, runningContainers, wpc, windex, wstats,
                   werr, wrem, sem, mu, wg, elapsed>>

\* part_001:115-165: the listing call succeeds and the records are built
ContainerList ==
    /\ pc = "list"
    /\ lerr' = "nil"
    /\ \E states \in Listings :
         /\ containers' = Listing(states)
         /\ result' = BuildResult(Listing(states))
         /\ runningContainers' = BuildRunning(Listing(states))
         /\ pc' = IF RunningIds(Listing(states)) # {} THEN "dispatch" ELSE "return"
    /\ UNCHANGED <<wpc, windex, wstats, werr, wrem, sem, mu, wg, elapsed, ret>>

\* Mutant: the goroutine is not given idx as an argument, and reads the
\* loop's variable when it runs
DispatchSharedIndex(id) ==
    /\ pc = "dispatch"
    /\ id \in Running \ Spawned
    /\ wg' = wg + 1
    /\ wpc' = [wpc EXCEPT ![id] = "acquire"]
    /\ \E other \in Running : windex' = [windex EXCEPT ![id] = runningContainers[other]]
    /\ UNCHANGED <<pc, lerr, containers, result, runningContainers, wstats, werr,
                   wrem, sem, mu, elapsed, ret>>

\* part_001:170-172,188: wg.Add(1) and go func(id, idx); Go ranges over the
\* map in an unspecified order
Dispatch(id) ==
    /\ pc = "dispatch"
    /\ id \in Running \ Spawned
    /\ wg' = wg + 1
    /\ wpc' = [wpc EXCEPT ![id] = "acquire"]
    /\ windex' = [windex EXCEPT ![id] = runningContainers[id]]
    /\ UNCHANGED <<pc, lerr, containers, result, runningContainers, wstats, werr,
                   wrem, sem, mu, elapsed, ret>>

\* Mutant: the call does not wait for the workers
WaitSkipped ==
    /\ pc = "dispatch"
    /\ Running \subseteq Spawned
    /\ pc' = "return"
    /\ UNCHANGED <<lerr, containers, result, runningContainers, wpc, windex, wstats,
                   werr, wrem, sem, mu, wg, elapsed, ret>>

\* part_001:191: wg.Wait() returns once the counter is zero
Wait ==
    /\ pc = "dispatch"
    /\ Running \subseteq Spawned
    /\ wg = 0
    /\ pc' = "return"
    /\ UNCHANGED <<lerr, containers, result, runningContainers, wpc, windex, wstats,
                   werr, wrem, sem, mu, wg, elapsed, ret>>

\* Mutant: a failed fetch is returned as the call's error
ReturnFetchError ==
    /\ pc = "return"
    /\ pc' = "returned"
    /\ ret' = IF \E id \in Ids : werr[id] \in {"error", "timeout"}
              THEN [returned |-> TRUE, list |-> <<>>, err |-> "stats error"]
              ELSE [returned |-> TRUE, list |-> result, err |-> "nil"]
    /\ UNCHANGED <<lerr, containers, result, runningContainers, wpc, windex, wstats,
                   werr, wrem, sem, mu, wg, elapsed>>

\* part_001:194: return result, nil
Return ==
    /\ pc = "return"
    /\ pc' = "returned"
    /\ ret' = [returned |-> TRUE, list |-> result, err |-> "nil"]
    /\ UNCHANGED <<lerr, containers, result, runningContainers, wpc, windex, wstats,
                   werr, wrem, sem, mu, wg, elapsed>>

\* Mutant: the sem channel has room for one token only
SlotFreeSingle == sem < 1

\* part_001:168,174: a send on sem does not block while the channel, of
\* capacity maxStatsWorkers, is not full
SlotFree == sem < maxStatsWorkers

\* Mutant: the send on sem never blocks
AcquireUngated(id) ==
    /\ wpc[id] = "acquire"
    /\ sem' = sem + 1
    /\ wpc' = [wpc EXCEPT ![id] = "fetch"]
    /\ wrem' = [wrem EXCEPT ![id] = statsTimeout]
    /\ UNCHANGED <<pc, lerr, containers, result, runningContainers, windex, wstats,
                   werr, mu, wg, elapsed, ret>>

\* part_001:174-180: sem <- struct{}{} blocks while the channel is full; the
\* worker then derives statsCtx and issues the stats request
Acquire(id) ==
    /\ wpc[id] = "acquire"
    /\ SlotFree
    /\ sem' = sem + 1
    /\ wpc' = [wpc EXCEPT ![id] = "fetch"]
    /\ wrem' = [wrem EXCEPT ![id] = statsTimeout]
    /\ UNCHANGED <<pc, lerr, containers, result, runningContainers, windex, wstats,
                   werr, mu, wg, elapsed, ret>>

\* part_001:180,203-244: the request is answered and decoded before the deadline
FetchOk(id) ==
    /\ wpc[id] = "fetch"
    /\ wrem[id] > 0
    /\ wstats' = [wstats EXCEPT ![id] = StatsOf[id]]
    /\ werr' = [werr EXCEPT ![id] = "nil"]
    /\ wpc' = [wpc EXCEPT ![id] = "lock"]
    /\ wrem' = [wrem EXCEPT ![id] = 0]
    /\ UNCHANGED <<pc, lerr, containers, result, runningContainers, windex, sem, mu,
                   wg, elapsed, ret>>

\* Mutant: <-sem is not deferred and a worker whose request failed returns
\* without it
FetchFailsKeepingSlot(id) ==
    /\ wpc[id] = "fetch"
    /\ wrem[id] > 0
    /\ werr' = [werr EXCEPT ![id] = "error"]
    /\ wpc' = [wpc EXCEPT ![id] = "wgDone"]
    /\ wrem' = [wrem EXCEPT ![id] = 0]
    /\ UNCHANGED <<pc, lerr, containers, result, runningContainers, windex, wstats,
                   sem, mu, wg, elapsed, ret>>

\* part_001:203-212: the request fails (transport) or its body does not decode,
\* before the deadline; both return (nil, err)
FetchFails(id) ==
    /\ wpc[id] = "fetch"
    /\ wrem[id] > 0
    /\ werr' = [werr EXCEPT ![id] = "error"]
    /\ wpc' = [wpc EXCEPT ![id] = "release"]
    /\ wrem' = [wrem EXCEPT ![id] = 0]
    /\ UNCHANGED <<pc, lerr, containers, result, runningContainers, windex, wstats,
                   sem, mu, wg, elapsed, ret>>

\* Mutant: the request is made without statsCtx (as getContainerStats,
\* part_001:197-200, makes it) and no deadline ever ends it
FetchWithoutDeadline(id) ==
    /\ wpc[id] = "fetch"
    /\ wrem[id] = 0
    /\ FALSE
    /\ UNCHANGED vars

\* part_001:177,203: the request is still unanswered when statsCtx reaches its
\* deadline, which cancels it
FetchTimeout(id) ==
    /\ wpc[id] = "fetch"
    /\ wrem[id] = 0
    /\ werr' = [werr EXCEPT ![id] = "timeout"]
    /\ wpc' = [wpc EXCEPT ![id] = "release"]
    /\ UNCHANGED <<pc, lerr, containers, result, runningContainers, windex, wstats,
                   wrem, sem, mu, wg, elapsed, ret>>

\* Mutant: the worker goes on to its writes without taking mu
LockNotWaiting(id) ==
    /\ wpc[id] = "lock"
    /\ mu' = id
    /\ wpc' = [wpc EXCEPT ![id] = "writeCPU"]
    /\ UNCHANGED <<pc, lerr, containers, result, runningContainers, windex, wstats,
                   werr, wrem, sem, wg, elapsed, ret>>

\* part_001:182
Lock(id) ==
    /\ wpc[id] = "lock"
    /\ mu = ""
    /\ mu' = id
    /\ wpc' = [wpc EXCEPT ![id] = "writeCPU"]
    /\ UNCHANGED <<pc, lerr, containers, result, runningContainers, windex, wstats,
                   werr, wrem, sem, wg, elapsed, ret>>

\* part_001:183
WriteCPU(id) ==
    /\ wpc[id] = "writeCPU"
    /\ result' = [result EXCEPT ![windex[id]].CPU = wstats[id].CPU]
    /\ wpc' = [wpc EXCEPT ![id] = "writeMemory"]
    /\ UNCHANGED <<pc, lerr, containers, runningContainers, windex, wstats, werr,
                   wrem, sem, mu, wg, elapsed, ret>>

\* Mutant: the memory figure is not copied into the record
WriteMemorySkipped(id) ==
    /\ wpc[id] = "writeMemory"
    /\ wpc' = [wpc EXCEPT ![id] = "writeNetIO"]
    /\ UNCHANGED <<pc, lerr, containers, result, runningContainers, windex, wstats, werr,
                   wrem, sem, mu, wg, elapsed, ret>>

\* part_001:184
WriteMemory(id) ==
    /\ wpc[id] = "writeMemory"
    /\ result' = [result EXCEPT ![windex[id]].Memory = wstats[id].Memory]
    /\ wpc' = [wpc EXCEPT ![id] = "writeNetIO"]
    /\ UNCHANGED <<pc, lerr, containers, runningContainers, windex, wstats, werr,
                   wrem, sem, mu, wg, elapsed, ret>>

\* part_001:185
WriteNetIO(id) ==
    /\ wpc[id] = "writeNetIO"
    /\ result' = [result EXCEPT ![windex[id]].NetIO = wstats[id].NetIO]
    /\ wpc' = [wpc EXCEPT ![id] = "unlock"]
    /\ UNCHANGED <<pc, lerr, containers, runningContainers, windex, wstats, werr,
                   wrem, sem, mu, wg, elapsed, ret>>

\* part_001:186
Unlock(id) ==
    /\ wpc[id] = "unlock"
    /\ mu' = ""
    /\ wpc' = [wpc EXCEPT ![id] = "release"]
    /\ UNCHANGED <<pc, lerr, containers, result, runningContainers, windex, wstats,
                   werr, wrem, sem, wg, elapsed, ret>>

\* part_001:175,178: the deferred cancelStats() and <-sem
Release(id) ==
    /\ wpc[id] = "release"
    /\ sem' = sem - 1
    /\ wpc' = [wpc EXCEPT ![id] = "wgDone"]
    /\ UNCHANGED <<pc, lerr, containers, result, runningContainers, windex, wstats,
                   werr, wrem, mu, wg, elapsed, ret>>

\* part_001:173: the deferred wg.Done()
WgDone(id) ==
    /\ wpc[id] = "wgDone"
    /\ wg' = wg - 1
    /\ wpc' = [wpc EXCEPT ![id] = "done"]
    /\ UNCHANGED <<pc, lerr, containers, result, runningContainers, windex, wstats,
                   werr, wrem, sem, mu, elapsed, ret>>

\* A goroutine that can take a step without waiting for anything
Runnable(id) ==
    \/ wpc[id] \in {"writeCPU", "writeMemory", "writeNetIO", "unlock", "release", "wgDone"}
    \/ wpc[id] = "acquire" /\ SlotFree
    \/ wpc[id] = "lock" /\ mu = ""

\* One second passes: every goroutine is blocked, at least one of them in a
\* stats request, and no request is past its deadline
Tick ==
    /\ pc = "dispatch"
    /\ Running \subseteq Spawned
    /\ InFlight # {}
    /\ \A id \in Ids : ~Runnable(id)
    /\ \A id \in InFlight : wrem[id] > 0
    /\ wrem' = [id \in Ids |-> IF id \in InFlight THEN wrem[id] - 1 ELSE wrem[id]]
    /\ elapsed' = elapsed + 1
    /\ UNCHANGED <<pc, lerr, containers, result, runningContainers, wpc, windex,
                   wstats, werr, sem, mu, wg, ret>>

Worker(id) ==
    \/ Acquire(id)
    \/ FetchOk(id)
    \/ FetchFails(id)
    \/ FetchTimeout(id)
    \/ Lock(id)
    \/ WriteCPU(id)
    \/ WriteMemory(id)
    \/ WriteNetIO(id)
    \/ Unlock(id)
    \/ Release(id)
    \/ WgDone(id)

Next ==
    \/ ContainerListFails /\ UNCHANGED <<stVars, fVars, uiVars, callVars, rowVars>>
    \/ ContainerList /\ UNCHANGED <<stVars, fVars, uiVars, callVars, rowVars>>
    \/ \E id \in Ids : Dispatch(id) /\ UNCHANGED <<stVars, fVars, uiVars, callVars, rowVars>>
    \/ \E id \in Ids : Worker(id) /\ UNCHANGED <<stVars, fVars, uiVars, callVars, rowVars>>
    \/ Tick /\ UNCHANGED <<stVars, fVars, uiVars, callVars, rowVars>>
    \/ Wait /\ UNCHANGED <<stVars, fVars, uiVars, callVars, rowVars>>
    \/ Return /\ UNCHANGED <<stVars, fVars, uiVars, callVars, rowVars>>

Spec == Init /\ [][Next]_vars

\* Go runs every runnable goroutine and fires every timer: no step that
\* stays possible is put off forever
FairSpec == Spec /\ WF_vars(Next)

\* ------------------------------------------------------------------------
\* getContainerStatsWithContext on its own: every payload of the bounded
\* family below, decoded or not

CounterValues == 0..(Modulus - 1)

\* OnlineCPUs: not reported, one, several
CPUCounts == {0, 1, MaxCPUs}

PercpuUsages == {<<>>, [i \in 1..MaxCPUs |-> 0]}

CPUPayloads ==
    {[CPUStats    |-> [CPUUsage |-> [TotalUsage |-> t, PercpuUsage |-> pcu],
                       SystemUsage |-> sy, OnlineCPUs |-> n],
      PreCPUStats |-> [CPUUsage |-> [TotalUsage |-> pt], SystemUsage |-> psy],
      MemoryStats |-> [Usage |-> 50, Limit |-> 100],
      Networks    |-> <<>>] :
        t \in CounterValues, pt \in CounterValues, sy \in CounterValues,
        psy \in CounterValues, n \in CPUCounts, pcu \in PercpuUsages}

\* Memory usage and limit: none, little, half, all
MemValues == {0, 1, 50, 100}

MemPayloads ==
    {[CPUStats    |-> [CPUUsage |-> [TotalUsage |-> 0, PercpuUsage |-> <<>>],
                       SystemUsage |-> 0, OnlineCPUs |-> 1],
      PreCPUStats |-> [CPUUsage |-> [TotalUsage |-> 0], SystemUsage |-> 0],
      MemoryStats |-> [Usage |-> u, Limit |-> l],
      Networks    |-> <<>>] :
        u \in MemValues, l \in MemValues}

StatsInit ==
    /\ LcInit
    /\ spc = "call"
    /\ payload \in CPUPayloads \cup MemPayloads
    /\ computed = NoComputed
    /\ stats = NoStats
    /\ FilterIdle
    /\ UIIdle
    /\ CallIdle
    /\ RowIdle

\* part_001:203-212: ContainerStats or the decoding returns an error
StatsFails ==
    /\ spc = "call"
    /\ spc' = "failed"
    /\ UNCHANGED <<payload, computed, stats>>

\* part_001:214-244: the payload is decoded and the metrics are computed
ComputeStats ==
    /\ spc = "call"
    /\ spc' = "returned"
    /\ computed' = [cpuPercent |-> cpuPercent(payload), memPercent |-> memPercent(payload)]
    /\ stats' = getContainerStatsWithContext(payload)
    /\ UNCHANGED payload

StatsNext ==
    \/ StatsFails /\ UNCHANGED <<lcVars, fVars, uiVars, callVars, rowVars>>
    \/ ComputeStats /\ UNCHANGED <<lcVars, fVars, uiVars, callVars, rowVars>>

StatsSpec == StatsInit /\ [][StatsNext]_vars

\* ------------------------------------------------------------------------
\* ListImages (part_001:301-332) and its helpers (part_001:478-521)

\* The decimal digits of a natural number
RECURSIVE Itoa(_)
Itoa(n) == IF n < 10 THEN <<Digits[n + 1]>> ELSE Itoa(n \div 10) \o <<Digits[(n % 10) + 1]>>

\* fmt.Sprintf("%.2f", x) for x >= 0, as characters
Sprintf2f(x) ==
    With(RoundScaled(x, 2), LAMBDA hundredths :
        Itoa(hundredths \div 100) \o <<".">>
            \o <<Digits[((hundredths % 100) \div 10) + 1], Digits[(hundredths % 10) + 1]>>)

Sha256Prefix == <<"s", "h", "a", "2", "5", "6", ":">>

\* part_001:478-491
shortImageID(id) ==
    With(IF HasPrefix(id, Sha256Prefix) THEN Drop(id, Len(Sha256Prefix)) ELSE id, LAMBDA trimmed :
        IF Len(trimmed) >= 12 THEN SubSeq(trimmed, 1, 12) ELSE trimmed)

\* part_001:501-511
RelativeUnits ==
    <<[dur |-> Hour * 24 * 365, label |-> <<"y">>],
      [dur |-> Hour * 24 * 30, label |-> <<"m", "o">>],
      [dur |-> Hour * 24 * 7, label |-> <<"w">>],
      [dur |-> Hour * 24, label |-> <<"d">>],
      [dur |-> Hour, label |-> <<"h">>],
      [dur |-> Minute, label |-> <<"m">>]>>

\* part_001:493-521
formatRelativeDuration(d) ==
    With(IF d < 0 THEN 0 - d ELSE d, LAMBDA abs :
    With({k \in 1..Len(RelativeUnits) : abs >= RelativeUnits[k].dur}, LAMBDA reached :
        IF abs < Minute \/ reached = {} THEN <<"j", "u", "s", "t", " ", "n", "o", "w">>
        ELSE Itoa(abs \div RelativeUnits[Min(reached)].dur)
                \o RelativeUnits[Min(reached)].label \o <<" ", "a", "g", "o">>))

\* part_001:311-328: the ImageInfo of one image of the runtime's list
ImageInfoOf(img, now) ==
    [ID      |-> shortImageID(img.ID),
     Tag     |-> IF Len(img.RepoTags) > 0 THEN img.RepoTags[1] ELSE <<"<", "n", "o", "n", "e", ">">>,
     Size    |-> Sprintf2f(FDiv(Float(img.Size), Float(MiB))) \o <<" ", "M", "B">>,
     Age     |-> formatRelativeDuration(now - img.Created),
     Created |-> img.Created]

\* part_001:301-332, after a successful ImageList
ListImages(images, now) == [i \in 1..Len(images) |-> ImageInfoOf(images[i], now)]

\* ------------------------------------------------------------------------
\* The filter bar: one text is parsed, then the filter it yields is matched
\* against one record of one kind

Operators == {operators[k] : k \in 1..Len(operators)}

\* Free text: every concatenation of at most MaxTokens of these
InputTokens ==
    {OpEqual, OpGreater, OpContains, <<"!">>, <<" ">>, <<",">>,
     FilterAge, <<"1", "d">>, <<"R", "e">>, <<"(">>}

RECURSIVE TokenStrings(_)
TokenStrings(n) ==
    IF n = 0 THEN {<<>>}
    ELSE LET shorter == TokenStrings(n - 1)
         IN shorter \cup {s \o t : s \in shorter, t \in InputTokens}

\* Single clauses field operator value, for every operator
FieldSamples ==
    {FilterAge, FilterStatus, FilterState, FilterName, FilterTag, FilterSize,
     FilterDriver, FilterScope, <<"R", "e">>}

ValueSamples ==
    {<<"1", "d">>, <<"1", "h">>, <<"2", "h">>, <<"3", "h">>, <<"1", "M", "B">>,
     <<"R", "e">>, <<"r", ".">>, <<"x", "r", "e", "1", "d", "x">>, <<"(">>}

StructuredClauses == {fld \o op \o v : fld \in FieldSamples, op \in Operators, v \in ValueSamples}

RunningState == <<"r", "u", "n", "n", "i", "n", "g">>

\* Comma-separated lists of at most MaxClauses of these clauses: empty,
\* blank, six that parse and three that do not
ClauseSamples ==
    {<<>>, <<" ">>,
     FilterState \o OpEqual \o RunningState,
     FilterAge \o OpGreater \o <<"1", "h">>,
     FilterAge \o OpGreater \o <<"3", "h">>,
     <<"R", "e", "=", "1", "d">>,
     FilterAge \o OpLessEqual \o <<"1", "d">>,
     FilterSize \o OpLess \o <<"1", "M", "B">>,
     FilterAge \o OpGreater \o <<"R", "e">>,
     <<"R", "e">>,
     OpEqual \o <<"R", "e">>}

RECURSIVE ClauseLists(_)
ClauseLists(n) ==
    IF n = 1 THEN ClauseSamples
    ELSE LET shorter == ClauseLists(n - 1)
         IN shorter \cup {l \o <<",">> \o c : l \in shorter, c \in ClauseSamples}

\* Clauses with blanks around the operator: the value re, and the value ~re
SpacedClauses ==
    {FilterName \o <<" ">> \o OpEqual \o <<" ">> \o <<"r", "e">>,
     FilterName \o <<" ">> \o OpEqual \o <<" ">> \o OpContains \o <<"r", "e">>}

FilterInputs ==
    TokenStrings(MaxTokens) \cup StructuredClauses \cup ClauseLists(MaxClauses) \cup SpacedClauses

\* Records: the text Hit in one field and Miss in every other
Hit == <<"x", "R", "E", "1", "D", "x">>

Miss == <<"-">>

Put(field, k) == IF field = k THEN Hit ELSE Miss

\* The clock reading of time.Since, and the creation time of a record
Now == 3 * Hour

CreatedAt == 1 * Hour

ContainerRecords ==
    {[ID |-> Put("ID", k), Name |-> Put("Name", k), Image |-> Put("Image", k),
      Status |-> Put("Status", k), State |-> Put("State", k), Ports |-> Put("Ports", k),
      Age |-> Put("Age", k), Created |-> CreatedAt] :
        k \in {"ID", "Name", "Image", "Status", "State", "Ports", "Age", "none"}}
    \cup {[ID |-> Miss, Name |-> Miss, Image |-> Miss, Status |-> Miss, State |-> RunningState,
            Ports |-> Miss, Age |-> Miss, Created |-> CreatedAt]}

\* Byte sizes of runtime images: around 1 MB, and half, one and a half
\* and twice that
ImageSizes == {0, MiB \div 2, MiB - 1, MiB, MiB + 1, MiB + MiB \div 2, 2 * MiB}

\* The runtime's image of S bytes, untagged
RuntimeImage(S) ==
    [ID |-> Sha256Prefix \o Miss, RepoTags |-> <<>>, Size |-> S, Created |-> CreatedAt]

ImageRecords ==
    {[ID |-> Put("ID", k), Tag |-> Put("Tag", k), Size |-> Put("Size", k),
      Age |-> Put("Age", k), Created |-> CreatedAt] :
        k \in {"ID", "Tag", "Size", "Age", "none"}}
    \cup {ListImages(<<RuntimeImage(S)>>, Now)[1] : S \in ImageSizes}

NetworkRecords ==
    {[ID |-> Put("ID", k), Name |-> Put("Name", k), Driver |-> Put("Driver", k),
      Scope |-> Put("Scope", k), Age |-> Put("Age", k),
      Created |-> IF k = "none" THEN 0 ELSE CreatedAt] :
        k \in {"ID", "Name", "Driver", "Scope", "Age", "none"}}

VolumeRecords ==
    {[Name |-> Put("Name", k), Driver |-> Put("Driver", k),
      Mountpoint |-> Put("Mountpoint", k), Age |-> Put("Age", k),
      Created |-> IF k = "none" THEN 0 ELSE CreatedAt] :
        k \in {"Name", "Driver", "Mountpoint", "Age", "none"}}

FilterInit ==
    /\ LcInit
    /\ spc = "idle"
    /\ payload = StatsPayload(IdOf(1))
    /\ computed = NoComputed
    /\ stats = NoStats
    /\ UIIdle
    /\ CallIdle
    /\ RowIdle
    /\ fpc = "typed"
    /\ input \in FilterInputs
    /\ filter = NilFilter
    /\ ferr = NoError
    /\ matched = NoMatch

\* filter.go:76-109
ParseFilterCall ==
    /\ fpc = "typed"
    /\ LET parsed == ParseFilter(input)
       IN /\ filter' = parsed.f
          /\ ferr' = parsed.err
    /\ fpc' = "parsed"
    /\ UNCHANGED <<input, matched>>

Parsed == fpc = "parsed" /\ ~filter.nil

\* filter.go:257-275
MatchContainerCall ==
    /\ Parsed
    /\ \E c \in ContainerRecords :
         matched' = [kind |-> "container", record |-> c,
                     result |-> MatchContainer(filter, c, Now)]
    /\ fpc' = "matched"
    /\ UNCHANGED <<input, filter, ferr>>

\* filter.go:294-310
MatchImageCall ==
    /\ Parsed
    /\ \E img \in ImageRecords :
         matched' = [kind |-> "image", record |-> img,
                     result |-> MatchImage(filter, img, Now)]
    /\ fpc' = "matched"
    /\ UNCHANGED <<input, filter, ferr>>

\* filter.go:336-353
MatchNetworkCall ==
    /\ Parsed
    /\ \E net \in NetworkRecords :
         matched' = [kind |-> "network", record |-> net,
                     result |-> MatchNetwork(filter, net, Now)]
    /\ fpc' = "matched"
    /\ UNCHANGED <<input, filter, ferr>>

\* filter.go:375-391
MatchVolumeCall ==
    /\ Parsed
    /\ \E vol \in VolumeRecords :
         matched' = [kind |-> "volume", record |-> vol,
                     result |-> MatchVolume(filter, vol, Now)]
    /\ fpc' = "matched"
    /\ UNCHANGED <<input, filter, ferr>>

FilterNext ==
    \/ ParseFilterCall /\ UNCHANGED <<lcVars, stVars, uiVars, callVars, rowVars>>
    \/ MatchContainerCall /\ UNCHANGED <<lcVars, stVars, uiVars, callVars, rowVars>>
    \/ MatchImageCall /\ UNCHANGED <<lcVars, stVars, uiVars, callVars, rowVars>>
    \/ MatchNetworkCall /\ UNCHANGED <<lcVars, stVars, uiVars, callVars, rowVars>>
    \/ MatchVolumeCall /\ UNCHANGED <<lcVars, stVars, uiVars, callVars, rowVars>>

FilterSpec == FilterInit /\ [][FilterNext]_vars

\* ------------------------------------------------------------------------
\* internal/ui in the list view: the table has the focus, or the filter bar
\* has it (filterMode).  A load shows "Loading..." and starts a goroutine
\* that lists and then queues its render callback; the callbacks run on the
\* UI goroutine one at a time, in the order the listings end.

\* The texts typed into the filter bar: nothing, a search term, two filters
\* and a clause without a value
UITexts ==
    {<<>>,
     <<"r", "e">>,
     FilterName \o OpEqual \o <<"x", "r", "e", "1", "d", "x">>,
     FilterState \o OpNotEqual \o RunningState,
     FilterAge \o OpGreater}

\* What the runtime lists for each kind: three records
RuntimeList(kind) ==
    CASE kind = "containers" ->
            <<CHOOSE c \in ContainerRecords : c.Name = Hit,
              CHOOSE c \in ContainerRecords : c.State = RunningState,
              CHOOSE c \in ContainerRecords : c.Status = Hit>>
      [] kind = "images" ->
            <<CHOOSE img \in ImageRecords : img.Tag = Hit,
              CHOOSE img \in ImageRecords : img.ID = Hit,
              CHOOSE img \in ImageRecords : img.Size = Hit>>
      [] kind = "networks" ->
            <<CHOOSE net \in NetworkRecords : net.Name = Hit,
              CHOOSE net \in NetworkRecords : net.Created = 0,
              CHOOSE net \in NetworkRecords : net.Driver = Hit>>
      [] kind = "volumes" ->
            <<CHOOSE vol \in VolumeRecords : vol.Name = Hit,
              CHOOSE vol \in VolumeRecords : vol.Created = 0,
              CHOOSE vol \in VolumeRecords : vol.Driver = Hit>>

\* u.filter.MatchContainer, MatchImage, MatchNetwork or MatchVolume
MatchRecord(kind, f, rec) ==
    CASE kind = "containers" -> MatchContainer(f, rec, Now)
      [] kind = "images" -> MatchImage(f, rec, Now)
      [] kind = "networks" -> MatchNetwork(f, rec, Now)
      [] kind = "volumes" -> MatchVolume(f, rec, Now)

\* Mutant: every listed record is displayed
filteredNot(kind, f, records) == records

\* log_format.go:750-756, 819-825, 867-873, 918-924
filtered(kind, f, records) == SelectSeq(records, LAMBDA rec : MatchRecord(kind, f, rec))

\* Mutant: the row selected before the load is selected again, whatever the
\* number of rows
restoreSelectionKept(selectedRow, total) == selectedRow

\* log_format.go:955-964
restoreSelection(selectedRow, total) ==
    IF total = 0 THEN 0
    ELSE IF selectedRow > 0 /\ selectedRow <= total THEN selectedRow
    ELSE 1

\* log_format.go:209-244: New and Initialize
UIInit ==
    /\ LcInit
    /\ spc = "idle"
    /\ payload = StatsPayload(IdOf(1))
    /\ computed = NoComputed
    /\ stats = NoStats
    /\ FilterIdle
    /\ uiFilter = New
    /\ filterInput = <<>>
    /\ filterMode = FALSE
    /\ statusBar = updateStatusBarText(FALSE, New)
    /\ currentView = "containers"
    /\ table = showLoading("containers")
    /\ selection = 0
    /\ lists = NoLists
    /\ loads = <<[kind |-> "containers", selectedRow |-> 0]>>
    /\ CallIdle
    /\ RowIdle

\* log_format.go:695-737: loadContainers and its three siblings
Load(kind) ==
    /\ Len(loads) < MaxLoads
    /\ table' = showLoading(kind)
    /\ loads' = Append(loads, [kind |-> kind, selectedRow |-> selection])

\* log_format.go:249-264: the keys 1 to 4
KeyView(kind) ==
    /\ ~filterMode
    /\ currentView' = kind
    /\ Load(kind)
    /\ UNCHANGED <<uiFilter, filterInput, filterMode, statusBar, selection, lists>>

\* log_format.go:273-275, 529-540: the key R
KeyReload ==
    /\ ~filterMode
    /\ Load(currentView)
    /\ UNCHANGED <<uiFilter, filterInput, filterMode, statusBar, currentView, selection, lists>>

\* log_format.go:265-267, 480-495: the key /
KeySlash ==
    /\ ~filterMode
    /\ filterMode' = TRUE
    /\ statusBar' = updateStatusBarText(TRUE, uiFilter)
    /\ filterInput' = IF ~IsEmpty(uiFilter) THEN String(uiFilter) ELSE filterInput
    /\ UNCHANGED <<uiFilter, currentView, table, selection, lists, loads>>

\* The user edits the text of the filter bar
KeyText ==
    /\ filterMode
    /\ \E text \in UITexts : filterInput' = text
    /\ UNCHANGED <<uiFilter, filterMode, statusBar, currentView, table, selection, lists, loads>>

\* log_format.go:426-428
KeyCtrlU ==
    /\ filterMode
    /\ filterInput' = <<>>
    /\ UNCHANGED <<uiFilter, filterMode, statusBar, currentView, table, selection, lists, loads>>

\* log_format.go:423-425, 497-506
KeyEscape ==
    /\ filterMode
    /\ filterMode' = FALSE
    /\ statusBar' = updateStatusBarText(FALSE, uiFilter)
    /\ UNCHANGED <<uiFilter, filterInput, currentView, table, selection, lists, loads>>

\* Mutant: a text that does not parse empties the filter and reloads
applyFilterFailsAndClears ==
    /\ filterMode
    /\ ParseFilter(filterInput).err.failed
    /\ statusBar' = [text |-> "Filter error: ", detail |-> ParseFilter(filterInput).err.part]
    /\ uiFilter' = New
    /\ Load(currentView)
    /\ UNCHANGED <<filterInput, filterMode, currentView, selection, lists>>

\* log_format.go:508-520 on a text that does not parse
applyFilterFails ==
    /\ filterMode
    /\ ParseFilter(filterInput).err.failed
    /\ statusBar' = [text |-> "Filter error: ", detail |-> ParseFilter(filterInput).err.part]
    /\ UNCHANGED <<uiFilter, filterInput, filterMode, currentView, table, selection, lists, loads>>

\* log_format.go:508-520 on a text that parses
applyFilter ==
    /\ filterMode
    /\ ~ParseFilter(filterInput).err.failed
    /\ uiFilter' = ParseFilter(filterInput).f
    /\ filterMode' = FALSE
    /\ statusBar' = updateStatusBarText(FALSE, ParseFilter(filterInput).f)
    /\ Load(currentView)
    /\ UNCHANGED <<filterInput, currentView, selection, lists>>

\* log_format.go:268-272, 522-527: the key c
clearFilter ==
    /\ ~filterMode
    /\ ~IsEmpty(uiFilter)
    /\ uiFilter' = New
    /\ filterInput' = <<>>
    /\ statusBar' = updateStatusBarText(filterMode, New)
    /\ Load(currentView)
    /\ UNCHANGED <<filterMode, currentView, selection, lists>>

\* log_format.go:739-746 and its siblings: the listing of load k failed
RenderError(k) ==
    /\ k \in 1..Len(loads)
    /\ table' = [title |-> loads[k].kind, cells |-> "Error: ", rows |-> <<>>]
    /\ loads' = SubSeq(loads, 1, k - 1) \o SubSeq(loads, k + 1, Len(loads))
    /\ UNCHANGED <<uiFilter, filterInput, filterMode, statusBar, currentView, selection, lists>>

\* log_format.go:739-806, 808-854, 856-905, 907-953: load k has listed
Render(k) ==
    /\ k \in 1..Len(loads)
    /\ LET kind == loads[k].kind
           rows == filtered(kind, uiFilter, RuntimeList(kind))
       IN /\ lists' = [lists EXCEPT ![kind] = RuntimeList(kind)]
          /\ table' = [title |-> kind, cells |-> "rows", rows |-> rows]
          /\ selection' = restoreSelection(loads[k].selectedRow, Len(rows))
    /\ loads' = SubSeq(loads, 1, k - 1) \o SubSeq(loads, k + 1, Len(loads))
    /\ UNCHANGED <<uiFilter, filterInput, filterMode, statusBar, currentView>>

UINext ==
    \/ \E kind \in Views : KeyView(kind) /\ UNCHANGED <<lcVars, stVars, fVars, callVars, rowVars>>
    \/ KeyReload /\ UNCHANGED <<lcVars, stVars, fVars, callVars, rowVars>>
    \/ KeySlash /\ UNCHANGED <<lcVars, stVars, fVars, callVars, rowVars>>
    \/ KeyText /\ UNCHANGED <<lcVars, stVars, fVars, callVars, rowVars>>
    \/ KeyCtrlU /\ UNCHANGED <<lcVars, stVars, fVars, callVars, rowVars>>
    \/ KeyEscape /\ UNCHANGED <<lcVars, stVars, fVars, callVars, rowVars>>
    \/ applyFilterFails /\ UNCHANGED <<lcVars, stVars, fVars, callVars, rowVars>>
    \/ applyFilter /\ UNCHANGED <<lcVars, stVars, fVars, callVars, rowVars>>
    \/ clearFilter /\ UNCHANGED <<lcVars, stVars, fVars, callVars, rowVars>>
    \/ \E k \in 1..MaxLoads : RenderError(k) /\ UNCHANGED <<lcVars, stVars, fVars, callVars, rowVars>>
    \/ \E k \in 1..MaxLoads : Render(k) /\ UNCHANGED <<lcVars, stVars, fVars, callVars, rowVars>>

UISpec == UIInit /\ [][UINext]_vars

\* ------------------------------------------------------------------------
\* CallSpec: a text is given to parseDuration, to parseBytes or to Colorize

\* Magnitudes of the durations and sizes, as typed
Wholes == {0, 1, 2, 10, 300}

DurationUnits == {<<"d">>, <<"w">>, <<"m", "o">>, <<"y">>, <<"h">>, <<"m">>, <<"s">>}

DurationTexts == {Itoa(N) \o unit : N \in Wholes, unit \in DurationUnits}

SizeMagnitudes == {Itoa(N) : N \in Wholes} \cup {<<"1", ".", "5">>}

SizeSuffixes ==
    {<<>>, <<"B">>, <<"b">>,
     <<"K", "B">>, <<"k", "b">>, <<"K", "b">>,
     <<"M", "B">>, <<"m", "b">>, <<"M", "b">>,
     <<"G", "B">>, <<"g", "b">>, <<"G", "b">>,
     <<"T", "B">>, <<"t", "b">>, <<"T", "b">>}

\* 8388608 is 2^23: that many terabytes are 2^63 bytes
SizeTexts ==
    {magnitude \o suffix : magnitude \in SizeMagnitudes, suffix \in SizeSuffixes}
    \cup {Itoa(8388608) \o suffix : suffix \in {<<"T", "B">>, <<"t", "b">>}}
    \cup {<<"1", " ", "M", "B">>}

ValueTexts == DurationTexts \cup SizeTexts

LogLines ==
    {<<"o", "k">>,
     <<" ", "o", "k">>,
     <<"\t", "a", "t", " ", "x">>,
     <<"I", "N", "F", "O", " ", "u", "p">>,
     <<"[", "e", "r", "r", "]", ":", " ", "x">>,
     <<"2", "0", "2", "5", "-", "0", "1", "-", "0", "1", "T", "1", "0", ":", "0", "0", ":", "0", "0", "Z", " ", "I", "N", "F", "O", " ", "u", "p">>,
     <<"2", "0", "2", "5", "-", "0", "1", "-", "0", "1", "T", "1", "0", ":", "0", "0", ":", "0", "0", ".", "5", "+", "0", "1", ":", "0", "0", " ", "o", "k">>,
     <<>>,
     <<" ">>,
     <<"o", "k", " ", "I", "N", "F", "O">>,
     <<"2", "0", "2", "5", "-", "1", "3", "-", "0", "1", "T", "1", "0", ":", "0", "0", ":", "0", "0", "Z", " ", "o", "k">>,
     <<"i", "n", "f", "o", "r", "m", "a", "t", "i", "o", "n">>}

RECURSIVE JoinLines(_)
JoinLines(lines) ==
    IF Len(lines) = 1 THEN lines[1] ELSE lines[1] \o <<"\n">> \o JoinLines(Tail(lines))

LogTexts ==
    {JoinLines(lines) : lines \in UNION {[1..n -> LogLines] : n \in 1..MaxLines}}

CallInit ==
    /\ LcInit
    /\ spc = "idle"
    /\ payload = StatsPayload(IdOf(1))
    /\ computed = NoComputed
    /\ stats = NoStats
    /\ FilterIdle
    /\ UIIdle
    /\ callee = ""
    /\ argument \in ValueTexts \cup LogTexts
    /\ outcome = NoOutcome
    /\ RowIdle

\* A call that returns an unspecified int64 returns any one of its values
Outcomes(returned) ==
    IF "int64" \in DOMAIN returned
    THEN {[err |-> returned.err, int64 |-> {v}] : v \in returned.int64}
    ELSE {returned}

parseDurationCall ==
    /\ callee = ""
    /\ argument \in ValueTexts
    /\ callee' = "parseDuration"
    /\ outcome' \in Outcomes(parseDuration(argument))
    /\ UNCHANGED argument

parseBytesCall ==
    /\ callee = ""
    /\ argument \in ValueTexts
    /\ callee' = "parseBytes"
    /\ outcome' \in Outcomes(parseBytes(argument))
    /\ UNCHANGED argument

ColorizeCall ==
    /\ callee = ""
    /\ argument \in LogTexts
    /\ callee' = "Colorize"
    /\ outcome' = [err |-> "nil", val |-> Colorize(argument)]
    /\ UNCHANGED argument

CallNext ==
    \/ parseDurationCall /\ UNCHANGED <<lcVars, stVars, fVars, uiVars, rowVars>>
    \/ parseBytesCall /\ UNCHANGED <<lcVars, stVars, fVars, uiVars, rowVars>>
    \/ ColorizeCall /\ UNCHANGED <<lcVars, stVars, fVars, uiVars, rowVars>>

CallSpec == CallInit /\ [][CallNext]_vars

\* ------------------------------------------------------------------------
\* RowSpec: the UI on one view.  tview runs the key handlers and the
\* callbacks given to QueueUpdateDraw one after the other on the goroutine of
\* the event loop; a render pass is taken here record by record.

\* The view named kind has been requested after the first render of the
\* containers
RowInit ==
    /\ LcInit
    /\ spc = "idle"
    /\ payload = StatsPayload(IdOf(1))
    /\ computed = NoComputed
    /\ stats = NoStats
    /\ FilterIdle
    /\ uiFilter = New
    /\ filterInput = <<>>
    /\ filterMode = FALSE
    /\ statusBar = updateStatusBarText(FALSE, New)
    /\ \E kind \in Views :
         /\ currentView = kind
         /\ table = showLoading(kind)
         /\ loads = <<[kind |-> kind, selectedRow |-> 1]>>
    /\ selection = 1
    /\ lists = [NoLists EXCEPT !["containers"] = RuntimeList("containers")]
    /\ CallIdle
    /\ RowIdle

\* What is typed in the filter bar: a filter that hides a row, and a text
\* that does not parse
RowTexts == {FilterState \o OpNotEqual \o RunningState, FilterAge \o OpGreater}

\* Mutant: a key handler does not wait for the callback that is running
EventLoopFreeAlways == TRUE

\* The event loop is between two handlers: no callback is running
EventLoopFree == rendering = NoPass

\* The table has the focus
TableFocused == EventLoopFree /\ viewMode = "list" /\ ~filterMode

\* The filter bar has the focus
FilterFocused == EventLoopFree /\ viewMode = "list" /\ filterMode

\* log_format.go:438-453
updateStatusBar(mode, filtering, f) ==
    IF mode = "detail" THEN [text |-> "detailStatusText", detail |-> <<>>]
    ELSE updateStatusBarText(filtering, f)

\* tview.Table, rows selectable: the arrow keys move the selection to a row
\* of data
KeyMove ==
    /\ table.cells = "rows"
    /\ \E row \in 1..Len(table.rows) : row # selection /\ selection' = row
    /\ UNCHANGED <<uiFilter, filterInput, filterMode, statusBar, currentView, table, lists,
                   loads, rowVars>>

\* log_format.go:739-748: the callback of load k begins; the listing failed
RenderFails(k) ==
    /\ EventLoopFree
    /\ RenderError(k)
    /\ UNCHANGED rowVars

\* log_format.go:739-750: the callback of load k begins with the records
\* listed
RenderBegin(k) ==
    /\ EventLoopFree
    /\ k \in 1..Len(loads)
    /\ table' = [title |-> loads[k].kind, cells |-> "", rows |-> <<>>]
    /\ lists' = [lists EXCEPT ![loads[k].kind] = RuntimeList(loads[k].kind)]
    /\ rendering' = [kind |-> loads[k].kind, selectedRow |-> loads[k].selectedRow,
                     records |-> RuntimeList(loads[k].kind), at |-> 1, filtered |-> <<>>]
    /\ loads' = SubSeq(loads, 1, k - 1) \o SubSeq(loads, k + 1, Len(loads))
    /\ UNCHANGED <<uiFilter, filterInput, filterMode, statusBar, currentView, selection,
                   viewMode, detailView, asyncActions>>

\* log_format.go:751-756: one turn of the loop that fills filtered
RenderMatch ==
    /\ rendering # NoPass
    /\ rendering.at <= Len(rendering.records)
    /\ rendering' =
         [rendering EXCEPT
            !.at = @ + 1,
            !.filtered = IF MatchRecord(rendering.kind, uiFilter, rendering.records[rendering.at])
                         THEN Append(@, rendering.records[rendering.at])
                         ELSE @]
    /\ UNCHANGED <<uiFilter, filterInput, filterMode, statusBar, currentView, table,
                   selection, lists, loads, viewMode, detailView, asyncActions>>

\* log_format.go:758-806: the header, the rows and the selection
RenderEnd ==
    /\ rendering # NoPass
    /\ rendering.at > Len(rendering.records)
    /\ table' = [title |-> rendering.kind, cells |-> "rows", rows |-> rendering.filtered]
    /\ selection' = restoreSelection(rendering.selectedRow, Len(rendering.filtered))
    /\ rendering' = NoPass
    /\ UNCHANGED <<uiFilter, filterInput, filterMode, statusBar, currentView, lists, loads,
                   viewMode, detailView, asyncActions>>

\* log_format.go:281-416: the keys that act on the selected row, by view
RowKeys(kind) ==
    IF kind = "containers"
    THEN {"start", "stop", "restart", "remove", "logs", "describe"}
    ELSE {"remove", "describe"}

\* log_format.go:292-337: what a key asks of the container's state
StateAllows(kind, key, resource) ==
    IF kind # "containers" \/ key \in {"restart", "logs", "describe"} THEN TRUE
    ELSE IF key = "stop" THEN resource.State = RunningState
    ELSE resource.State # RunningState

\* log_format.go:283-288 and its siblings: row, idx and selectedContainer,
\* selectedImage, selectedNetwork or selectedVolume; none when idx is out of
\* range
selectedResource ==
    IF selection - 1 >= 0 /\ selection - 1 < Len(lists[currentView])
    THEN <<lists[currentView][selection]>>
    ELSE <<>>

\* log_format.go:455-470 called from the keys s, x, r and d: the action is
\* started on its own goroutine
KeyAsync(key) ==
    /\ TableFocused
    /\ key \in RowKeys(currentView) \ {"logs", "describe"}
    /\ selectedResource # <<>>
    /\ StateAllows(currentView, key, selectedResource[1])
    /\ Len(asyncActions) < MaxActions
    /\ statusBar' = [text |-> "[yellow]", detail |-> <<>>]
    /\ asyncActions' = Append(asyncActions, [key |-> key, kind |-> currentView,
                                             resource |-> selectedResource])
    /\ UNCHANGED <<uiFilter, filterInput, filterMode, currentView, table, selection, lists,
                   loads, rendering, viewMode, detailView>>

\* log_format.go:459-463: the action failed
ActionFails(k) ==
    /\ EventLoopFree
    /\ k \in 1..Len(asyncActions)
    /\ statusBar' = [text |-> "[red]", detail |-> <<>>]
    /\ asyncActions' = SubSeq(asyncActions, 1, k - 1) \o SubSeq(asyncActions, k + 1, Len(asyncActions))
    /\ UNCHANGED <<uiFilter, filterInput, filterMode, currentView, table, selection, lists,
                   loads, rendering, viewMode, detailView>>

\* log_format.go:464-467: the action succeeded; onSuccess loads the view the
\* key was pressed in
ActionDone(k) ==
    /\ EventLoopFree
    /\ k \in 1..Len(asyncActions)
    /\ Load(asyncActions[k].kind)
    /\ statusBar' = updateStatusBar(viewMode, filterMode, uiFilter)
    /\ asyncActions' = SubSeq(asyncActions, 1, k - 1) \o SubSeq(asyncActions, k + 1, Len(asyncActions))
    /\ UNCHANGED <<uiFilter, filterInput, filterMode, currentView, selection, lists,
                   rendering, viewMode, detailView>>

\* log_format.go:542-613 called from the keys l and i: the detail view takes
\* the place of the table while its loader runs.  One loader at a time
KeyDetail(key) ==
    /\ TableFocused
    /\ key \in RowKeys(currentView) \cap {"logs", "describe"}
    /\ selectedResource # <<>>
    /\ detailView.text # "Loading..."
    /\ detailView' = [title |-> key, resource |-> selectedResource, text |-> "Loading..."]
    /\ viewMode' = "detail"
    /\ statusBar' = updateStatusBar("detail", filterMode, uiFilter)
    /\ UNCHANGED <<uiFilter, filterInput, filterMode, currentView, table, selection, lists,
                   loads, rendering, asyncActions>>

\* log_format.go:547-559: the loader has returned
DetailLoaded ==
    /\ EventLoopFree
    /\ detailView.text = "Loading..."
    /\ \E text \in {"[red]Error: ", "content"} :
         detailView' = [detailView EXCEPT !.text = text]
    /\ UNCHANGED <<uiFilter, filterInput, filterMode, statusBar, currentView, table,
                   selection, lists, loads, rendering, viewMode, asyncActions>>

\* log_format.go:405-416, 615-625: Escape or q in the detail view
switchToTableView ==
    /\ EventLoopFree
    /\ viewMode = "detail"
    /\ viewMode' = "list"
    /\ statusBar' = updateStatusBar("list", filterMode, uiFilter)
    /\ Load(currentView)
    /\ UNCHANGED <<uiFilter, filterInput, filterMode, currentView, selection, lists,
                   rendering, detailView, asyncActions>>

RowNext ==
    \/ TableFocused /\ KeyMove /\ UNCHANGED <<lcVars, stVars, fVars, callVars>>
    \/ TableFocused /\ KeyReload /\ UNCHANGED <<lcVars, stVars, fVars, callVars, rowVars>>
    \/ TableFocused /\ KeySlash /\ UNCHANGED <<lcVars, stVars, fVars, callVars, rowVars>>
    \/ TableFocused /\ clearFilter /\ UNCHANGED <<lcVars, stVars, fVars, callVars, rowVars>>
    \/ FilterFocused /\ KeyText /\ filterInput' \in RowTexts
          /\ UNCHANGED <<lcVars, stVars, fVars, callVars, rowVars>>
    \/ FilterFocused /\ KeyCtrlU /\ UNCHANGED <<lcVars, stVars, fVars, callVars, rowVars>>
    \/ FilterFocused /\ KeyEscape /\ UNCHANGED <<lcVars, stVars, fVars, callVars, rowVars>>
    \/ FilterFocused /\ applyFilterFails /\ UNCHANGED <<lcVars, stVars, fVars, callVars, rowVars>>
    \/ FilterFocused /\ applyFilter /\ UNCHANGED <<lcVars, stVars, fVars, callVars, rowVars>>
    \/ \E key \in RowKeys("containers") : KeyAsync(key) /\ UNCHANGED <<lcVars, stVars, fVars, callVars>>
    \/ \E key \in RowKeys("containers") : KeyDetail(key) /\ UNCHANGED <<lcVars, stVars, fVars, callVars>>
    \/ \E k \in 1..MaxActions : ActionFails(k) /\ UNCHANGED <<lcVars, stVars, fVars, callVars>>
    \/ \E k \in 1..MaxActions : ActionDone(k) /\ UNCHANGED <<lcVars, stVars, fVars, callVars>>
    \/ DetailLoaded /\ UNCHANGED <<lcVars, stVars, fVars, callVars>>
    \/ switchToTableView /\ UNCHANGED <<lcVars, stVars, fVars, callVars>>
    \/ \E k \in 1..MaxLoads : RenderFails(k) /\ UNCHANGED <<lcVars, stVars, fVars, callVars>>
    \/ \E k \in 1..MaxLoads : RenderBegin(k) /\ UNCHANGED <<lcVars, stVars, fVars, callVars>>
    \/ RenderMatch /\ UNCHANGED <<lcVars, stVars, fVars, callVars>>
    \/ RenderEnd /\ UNCHANGED <<lcVars, stVars, fVars, callVars>>

RowSpec == RowInit /\ [][RowNext]_vars

\* ------------------------------------------------------------------------
\* Properties of ListContainers

Listed == lerr = "nil"

MetricsOf(rec) == [CPU |-> rec.CPU, Memory |-> rec.Memory, NetIO |-> rec.NetIO]

SentinelMetrics == [CPU |-> Sentinel, Memory |-> Sentinel, NetIO |-> Sentinel]

\* The metrics a successful fetch for container id yields
SampleMetrics(id) == StatsOf[id]

Populated(rec) == rec.CPU # Sentinel /\ rec.Memory # Sentinel /\ rec.NetIO # Sentinel

Failed == {id \in Running : werr[id] \in {"error", "timeout"}}

TimedOut == {id \in Running : werr[id] = "timeout"}

Succeeded == {id \in Running : werr[id] = "nil"}

\* C1: at every moment of ListContainers at most maxStatsWorkers (4) stats
\* fetches are in flight, however many containers are running; while 4 are in
\* flight a further worker cannot pass the semaphore.
C1_AtMostFourInFlight ==
    /\ Cardinality(InFlight) <= maxStatsWorkers
    /\ \A id \in Ids :
         wpc[id] = "acquire" /\ Cardinality(InFlight) = maxStatsWorkers
            => ~ENABLED Acquire(id)

C1_Witness ==
    /\ Cardinality(Running) > maxStatsWorkers
    /\ Cardinality(InFlight) = maxStatsWorkers
    /\ \E id \in Running : wpc[id] = "acquire"

\* C2: ListContainers eventually returns whatever the fetches do, and when
\* one running container's fetch ended only by its deadline while every other
\* fetch succeeded, the returned list has the sentinel in that container's
\* three metric fields and the fetched metrics in every other running
\* container's.
OneHangsOthersSucceed ==
    /\ Cardinality(TimedOut) = 1
    /\ Succeeded = Running \ TimedOut

C2_HungFetchStillReturns ==
    /\ <>(ret.returned)
    /\ [](ret.returned /\ Listed /\ OneHangsOthersSucceed =>
            \A id \in Running :
                MetricsOf(ret.list[runningContainers[id]]) =
                    IF id \in TimedOut THEN SentinelMetrics ELSE SampleMetrics(id))

C2_Witness ==
    /\ ret.returned
    /\ OneHangsOthersSucceed
    /\ Cardinality(Succeeded) >= 2

\* C3: whichever fetches fail (by error or by deadline), ListContainers
\* returns a nil error and the complete list; a failing container's three
\* metric fields are the sentinel and every other record is what it would be
\* had nothing failed.
ExpectedRecord(i) ==
    LET ctr == containers[i] IN
    [ID |-> ctr.ID, State |-> ctr.State,
     CPU    |-> IF ctr.ID \in Succeeded THEN SampleMetrics(ctr.ID).CPU ELSE Sentinel,
     Memory |-> IF ctr.ID \in Succeeded THEN SampleMetrics(ctr.ID).Memory ELSE Sentinel,
     NetIO  |-> IF ctr.ID \in Succeeded THEN SampleMetrics(ctr.ID).NetIO ELSE Sentinel]

C3_FetchFailuresDegradeOneRecord ==
    pc = "returned" /\ Listed =>
        /\ ret.returned
        /\ ret.err = "nil"
        /\ Len(ret.list) = Len(containers)
        /\ \A i \in 1..Len(containers) : ret.list[i] = ExpectedRecord(i)

C3_Witness ==
    /\ pc = "returned"
    /\ \E id \in Running : werr[id] = "error"
    /\ \E id \in Running : werr[id] = "timeout"
    /\ Succeeded # {}
    /\ Cardinality(Running) < Len(containers)

\* C4: when ListContainers has returned, every worker it dispatched has
\* finished: none is in flight, waiting for a slot or holding the lock, and
\* the shared records are exactly the returned ones (nothing is written
\* after the return).
C4_ReturnsAfterAllWorkers ==
    ret.returned =>
        /\ \A id \in Ids : wpc[id] \in {"none", "done"}
        /\ \A id \in Running : wpc[id] = "done"
        /\ sem = 0 /\ mu = "" /\ wg = 0
        /\ ret.list = result
        /\ ~ENABLED (\E id \in Ids : Worker(id))

C4_Witness ==
    /\ ret.returned
    /\ Cardinality(Running) > maxStatsWorkers
    /\ TimedOut # {}
    /\ Succeeded # {}

\* C5 (as stated): no worker ever waits for a slot while a fetch in flight
\* has been running for some time, and the call takes no longer than one
\* fetch deadline.
WaitsForSlowFetch(id) ==
    /\ wpc[id] = "acquire"
    /\ ~ENABLED Acquire(id)
    /\ \E j \in InFlight : wrem[j] < statsTimeout

DeadlineRounds(n) == (n + maxStatsWorkers - 1) \div maxStatsWorkers

SameOrder(list) ==
    /\ Len(list) = Len(containers)
    /\ \A i \in 1..Len(containers) :
         list[i].ID = containers[i].ID /\ list[i].State = containers[i].State

C6_OneRecordPerContainerInOrder ==
    Listed => /\ SameOrder(result)
              /\ ret.returned => SameOrder(ret.list)

C6_Witness ==
    /\ ret.returned
    /\ Len(ret.list) >= 3
    /\ ret.list[2].State # "running"
    /\ Succeeded # {} /\ Failed # {}

\* C7: a container listed in a state other than "running" never gets a
\* worker (hence no stats fetch) and its three metric fields are the
\* sentinel throughout and in the returned list; a populated record belongs
\* to a running container.
C7_OnlyRunningContainersAreFetched ==
    Listed =>
        /\ \A i \in 1..Len(containers) :
             containers[i].State # "running" =>
                /\ wpc[containers[i].ID] = "none"
                /\ MetricsOf(result[i]) = SentinelMetrics
        /\ ret.returned =>
             \A i \in 1..Len(ret.list) :
                MetricsOf(ret.list[i]) # SentinelMetrics => containers[i].State = "running"

C7_Witness ==
    /\ ret.returned
    /\ \E i \in 1..Len(containers) : containers[i].State # "running"
    /\ \E i \in 1..Len(containers) : Populated(ret.list[i])

\* C8: when the listing call fails, ListContainers returns that error and a
\* nil list, and no worker is ever dispatched.
C8_ListErrorIsReturned ==
    lerr = "list error" =>
        /\ ret.returned
        /\ ret.err = "list error"
        /\ ret.list = <<>>
        /\ result = <<>>
        /\ \A id \in Ids : wpc[id] = "none"
        /\ wg = 0 /\ sem = 0

C8_Witness == lerr = "list error" /\ pc = "returned"

\* ------------------------------------------------------------------------
\* Properties of getContainerStatsWithContext

\* The deltas and the CPU count as the specification defines them, over the
\* integers
CpuDeltaOf(p) == p.CPUStats.CPUUsage.TotalUsage - p.PreCPUStats.CPUUsage.TotalUsage

SystemDeltaOf(p) == p.CPUStats.SystemUsage - p.PreCPUStats.SystemUsage

OnlineCpusOf(p) ==
    IF p.CPUStats.OnlineCPUs # 0 THEN p.CPUStats.OnlineCPUs
    ELSE Len(p.CPUStats.CPUUsage.PercpuUsage)

\* C9: when cpuDelta, systemDelta and onlineCpus are all positive, the CPU
\* percent is (cpuDelta / systemDelta) * onlineCpus * 100, onlineCpus being
\* the reported count or, when that is 0, the length of the per-CPU array.
C9_CpuPercentFormula ==
    spc = "returned" /\ CpuDeltaOf(payload) > 0 /\ SystemDeltaOf(payload) > 0
        /\ OnlineCpusOf(payload) > 0
    => computed.cpuPercent.n * SystemDeltaOf(payload) =
          CpuDeltaOf(payload) * OnlineCpusOf(payload) * 100 * computed.cpuPercent.d

\* cpuDelta : systemDelta = 200 : 1000 with 4 CPUs known from the per-CPU array
C9_Witness ==
    /\ spc = "returned"
    /\ CpuDeltaOf(payload) = 1 /\ SystemDeltaOf(payload) = 5
    /\ payload.CPUStats.OnlineCPUs = 0 /\ OnlineCpusOf(payload) = 4
    /\ computed.cpuPercent = Float(80)
    /\ stats.CPU = "80.00%"

\* C10: the CPU percent is 0 whenever cpuDelta or systemDelta is not
\* positive or onlineCpus is 0, also when a current counter is below the
\* previous one.
C10_CpuPercentZeroOtherwise ==
    spc = "returned" /\ (\/ CpuDeltaOf(payload) <= 0
                         \/ SystemDeltaOf(payload) <= 0
                         \/ OnlineCpusOf(payload) = 0)
    => computed.cpuPercent = Float(0)

\* C11: the memory percent is (usage / limit) * 100 when the limit is
\* positive and 0 when the limit is 0 (nothing is divided by zero).
C11_MemPercentFormula ==
    spc = "returned" =>
        IF payload.MemoryStats.Limit > 0
        THEN computed.memPercent.n * payload.MemoryStats.Limit =
                payload.MemoryStats.Usage * 100 * computed.memPercent.d
        ELSE computed.memPercent = Float(0) /\ stats.Memory = "0.00%"

\* usage 50 of an unset limit
C11_Witness ==
    /\ spc = "returned"
    /\ payload.MemoryStats.Usage = 50 /\ payload.MemoryStats.Limit = 0
    /\ computed.memPercent = Float(0)

\* ------------------------------------------------------------------------
\* Properties of internal/filter

Max(S) == CHOOSE x \in S : \A y \in S : x >= y

\* The text between the first and the last character of s that is not a space
Stripped(s) ==
    LET solid == {i \in 1..Len(s) : s[i] # " "}
    IN IF solid = {} THEN <<>> ELSE SubSeq(s, Min(solid), Max(solid))

Blank(s) == \A i \in 1..Len(s) : s[i] = " "

Returned == fpc \in {"parsed", "matched"}

MatchesEveryRecord(f) ==
    /\ \A c \in ContainerRecords : MatchContainer(f, c, Now)
    /\ \A img \in ImageRecords : MatchImage(f, img, Now)
    /\ \A net \in NetworkRecords : MatchNetwork(f, net, Now)
    /\ \A vol \in VolumeRecords : MatchVolume(f, vol, Now)

\* C12: for empty or whitespace-only input ParseFilter returns, without an
\* error, a filter for which IsEmpty is true, and MatchContainer, MatchImage,
\* MatchNetwork and MatchVolume of that filter return true for every record.
C12_BlankInputMatchesEverything ==
    Returned /\ Blank(input) =>
        /\ ferr = NoError
        /\ ~filter.nil
        /\ IsEmpty(filter)
        /\ MatchesEveryRecord(filter)
        /\ fpc = "matched" => matched.result

C12_Witness ==
    /\ fpc = "matched"
    /\ input = <<" ", " ">>
    /\ matched.kind = "volume"
    /\ matched.result

\* C13: when the trimmed input is not empty and holds none of = > < ~
\* (commas, spaces and ! allowed), ParseFilter succeeds with the lower-cased
\* trimmed input as SearchTerm and no criteria; every filter ParseFilter
\* returns has an empty SearchTerm or an empty criteria list.
FreeText(s) == Stripped(s) # <<>> /\ \A i \in 1..Len(s) : s[i] \notin {"=", ">", "<", "~"}

C13_FreeTextBecomesSearchTerm ==
    Returned =>
        /\ FreeText(input) =>
              /\ ferr = NoError
              /\ ~filter.nil
              /\ filter.SearchTerm = ToLower(Stripped(input))
              /\ filter.Criteria = <<>>
        /\ ~filter.nil => filter.SearchTerm = <<>> \/ filter.Criteria = <<>>

C13_Witness ==
    /\ fpc = "parsed"
    /\ input = <<" ", "R", "e", ",", "!">>
    /\ filter.SearchTerm = <<"r", "e", ",", "!">>
    /\ filter.Criteria = <<>>

\* C14: a free-text filter matches a record iff its lower-cased term is a
\* substring of the lower-cased value of at least one designated field of
\* the record's kind (containers: name, image, status, state, id; images:
\* tag, id, size string; networks: name, id, driver, scope; volumes: name,
\* driver, mountpoint), whatever the letter case of the typed term and of
\* the field.
DesignatedFields(kind) ==
    CASE kind = "container" -> {"Name", "Image", "Status", "State", "ID"}
      [] kind = "image" -> {"Tag", "ID", "Size"}
      [] kind = "network" -> {"Name", "ID", "Driver", "Scope"}
      [] kind = "volume" -> {"Name", "Driver", "Mountpoint"}

Occurs(sub, s) ==
    \E i \in 0..(Len(s) - Len(sub)) : \A j \in 1..Len(sub) : s[i + j] = sub[j]

Commas(s) == {i \in 1..Len(s) : s[i] = ","}

Cut(s, k) ==
    IF k = 0 THEN 0
    ELSE IF k > Cardinality(Commas(s)) THEN Len(s) + 1
    ELSE CHOOSE p \in Commas(s) : Cardinality({q \in Commas(s) : q < p}) = k - 1

Clauses(s) ==
    [k \in 1..(Cardinality(Commas(s)) + 1) |->
        Stripped(SubSeq(s, Cut(s, k - 1) + 1, Cut(s, k) - 1))]

CriteriaMode(s) == \E i \in 1..Len(s) : s[i] \in {"=", ">", "<", "~"}

FailingClauses(s) ==
    {k \in 1..Len(Clauses(s)) : Clauses(s)[k] # <<>> /\ parseCriterion(Clauses(s)[k]).err # "nil"}

SolidClauses(s) == {k \in 1..Len(Clauses(s)) : Clauses(s)[k] # <<>>}

\* C15: in criteria mode, if any non-empty comma-separated clause fails to
\* parse, ParseFilter returns an error and the nil filter, wherever the
\* failing clause stands and however many other clauses are valid, and the
\* error names the first failing clause; otherwise it returns a filter with
\* one criterion per non-empty clause.
C15_OneBadClauseFailsTheParse ==
    Returned /\ CriteriaMode(input) =>
        /\ ferr.failed = filter.nil
        /\ FailingClauses(input) # {} =>
              /\ ferr.failed
              /\ filter = NilFilter
              /\ ferr.part = Clauses(input)[Min(FailingClauses(input))]
        /\ FailingClauses(input) = {} =>
              /\ ferr = NoError
              /\ Len(filter.Criteria) = Cardinality(SolidClauses(input))

\* A valid clause, then two that fail
C15_Witness ==
    /\ fpc = "parsed"
    /\ input = <<"R", "e", "=", "1", "d", ",", "a", "g", "e", ">", "R", "e", ",", "=", "R", "e">>
    /\ ferr.failed
    /\ ferr.part = <<"a", "g", "e", ">", "R", "e">>
    /\ filter = NilFilter

\* A field or a value without white space, comma or operator character
PlainText(t) ==
    t # <<>> /\ \A i \in 1..Len(t) : t[i] \notin {" ", ",", "=", ">", "<", "~", "!"}

\* The ways to read s as field, operator, value with a plain field and value
Readings(s) ==
    {r \in [at : 1..Len(s), op : Operators] :
        /\ r.at + Len(r.op) < Len(s)
        /\ SubSeq(s, r.at + 1, r.at + Len(r.op)) = r.op
        /\ PlainText(SubSeq(s, 1, r.at))
        /\ PlainText(SubSeq(s, r.at + Len(r.op) + 1, Len(s)))}

FieldOf(s, r) == SubSeq(s, 1, r.at)

ValueOf(s, r) == SubSeq(s, r.at + Len(r.op) + 1, Len(s))

\* The value is one the field's or the operator's parser accepts
ValidFor(fld, op, v) ==
    /\ fld = FilterAge => parseDuration(v).err = "nil"
    /\ fld = FilterSize => parseBytes(v).err = "nil"
    /\ op = OpRegex => Compile(v).err = "nil"

\* C16: for a non-empty field f and value v without white space and without
\* any of = > < ~ !, v valid for the field, and each of the nine operators
\* op, the clause f op v parses to the criterion (f, op, v): the
\* two-character operators are recognised whole.
C16_ClauseSplitsAtItsOperator ==
    Returned =>
        \A r \in Readings(input) :
            ValidFor(FieldOf(input, r), r.op, ValueOf(input, r)) =>
                /\ ferr = NoError
                /\ Len(filter.Criteria) = 1
                /\ filter.Criteria[1].Type = FieldOf(input, r)
                /\ filter.Criteria[1].Op = r.op
                /\ filter.Criteria[1].Value = ValueOf(input, r)

C16_Witness ==
    /\ fpc = "parsed"
    /\ input = FilterSize \o OpLessEqual \o <<"1", "M", "B">>
    /\ Len(filter.Criteria) = 1
    /\ filter.Criteria[1].Op = OpLessEqual
    /\ filter.Criteria[1].Bytes = 1024 * 1024

\* The clause is a plain field and an operator with nothing after it
NothingAfterOperator(c) ==
    \E op \in Operators : HasSuffix(c, op) /\ PlainText(SubSeq(c, 1, Len(c) - Len(op)))

\* The clause is an operator and a plain value with nothing before it
NothingBeforeOperator(c) ==
    \E op \in Operators : HasPrefix(c, op) /\ PlainText(Drop(c, Len(op)))

\* No operator stands at a position greater than zero
NoOperatorPastStart(c) ==
    \A op \in Operators : \A i \in 1..(Len(c) - Len(op)) : SubSeq(c, i + 1, i + Len(op)) # op

Malformed(c) == NothingAfterOperator(c) \/ NothingBeforeOperator(c) \/ NoOperatorPastStart(c)

\* C17: a clause fails to parse, and ParseFilter returns an error, whenever
\* the text after its operator is empty or blank ("age>", "age>="), whenever
\* the text before its operator is empty, and whenever no operator stands at
\* a position greater than zero.
C17_MalformedClauseFails ==
    Returned /\ CriteriaMode(input) =>
        \A k \in SolidClauses(input) : Malformed(Clauses(input)[k]) => ferr.failed

\* A decimal magnitude: an optional sign, digits and at most one point
IsMagnitude(s) ==
    LET u == IF s # <<>> /\ s[1] \in {"+", "-"} THEN Tail(s) ELSE s
    IN  /\ \A i \in 1..Len(u) : u[i] \in DigitSet \cup {"."}
        /\ \E i \in 1..Len(u) : u[i] \in DigitSet
        /\ Cardinality({i \in 1..Len(u) : u[i] = "."}) <= 1

\* A whole number with an optional sign
IsInteger(s) == IsMagnitude(s) /\ \A i \in 1..Len(s) : s[i] # "."

\* A duration: a magnitude and one of d, w, mo, y, or a duration of the
\* standard grammar
ValidDurationText(v) ==
    \/ \E suffix \in {<<"d">>, <<"w">>, <<"m", "o">>, <<"y">>} :
            HasSuffix(v, suffix) /\ IsMagnitude(SubSeq(v, 1, Len(v) - Len(suffix)))
    \/ ParseDuration(v).err = "nil"

\* A size: a magnitude and one of TB, GB, MB, KB, B in either case, or a
\* whole number of bytes
ValidSizeText(v) ==
    \/ \E unit \in {<<"T", "B">>, <<"G", "B">>, <<"M", "B">>, <<"K", "B">>, <<"B">>} :
            /\ HasSuffix(ToUpper(v), unit)
            /\ IsMagnitude(TrimSpace(SubSeq(v, 1, Len(v) - Len(unit))))
    \/ IsInteger(v)

ValidRegexText(v) == Compile(v).err = "nil"

\* The value cannot be parsed as the field or the operator requires
Unparsable(fld, op, v) ==
    \/ fld = FilterAge /\ ~ValidDurationText(v)
    \/ fld = FilterSize /\ ~ValidSizeText(v)
    \/ op = OpRegex /\ ~ValidRegexText(v)

FilterTypes ==
    {FilterAge, FilterStatus, FilterState, FilterName, FilterTag, FilterSize,
     FilterDriver, FilterScope}

\* C19: every criterion a successful ParseFilter returns has its field among
\* age, status, state, name, tag, size, driver, scope and its operator among
\* the nine operators.
C19_CriterionFieldAndOperatorAreKnown ==
    Returned /\ ferr = NoError =>
        \A k \in 1..Len(filter.Criteria) :
            /\ filter.Criteria[k].Type \in FilterTypes
            /\ filter.Criteria[k].Op \in Operators

\* The parsed values a criterion carries; the inputs spell no duration and
\* no size of zero, so a parsed value differs from the zero value
ParsedValues(c) ==
    (IF c.Duration # ZeroCriterion.Duration THEN {"Duration"} ELSE {})
        \cup (IF c.Bytes # ZeroCriterion.Bytes THEN {"Bytes"} ELSE {})
        \cup (IF ~c.Regex.nil THEN {"Regex"} ELSE {})

\* The parsed values the field and the operator call for
CalledFor(type, op) ==
    (IF type = FilterAge THEN {"Duration"} ELSE {})
        \cup (IF type = FilterSize THEN {"Bytes"} ELSE {})
        \cup (IF op \in {OpContains, OpNotContains, OpRegex} THEN {"Regex"} ELSE {})

\* C20 as stated: every criterion a successful ParseFilter returns has
\* exactly one of its parsed duration, parsed byte count and compiled pattern
\* populated.
C20_ExactlyOnePopulated ==
    Returned /\ ferr = NoError =>
        \A k \in 1..Len(filter.Criteria) : Cardinality(ParsedValues(filter.Criteria[k])) = 1

\* C20 as amended: the duration is populated iff the field is age, the byte
\* count iff the field is size, and the pattern iff the operator is ~, !~
\* or =~; so none, one or two of them are populated, as the field and the
\* operator determine.
C20_PopulatedByFieldAndOperator ==
    Returned /\ ferr = NoError =>
        \A k \in 1..Len(filter.Criteria) :
            /\ ParsedValues(filter.Criteria[k])
                    = CalledFor(filter.Criteria[k].Type, filter.Criteria[k].Op)
            /\ Cardinality(ParsedValues(filter.Criteria[k])) \in 0..2

\* "age~1d" has come back with both a duration and a pattern
C20_Witness ==
    /\ fpc = "parsed"
    /\ input = FilterAge \o OpContains \o <<"1", "d">>
    /\ ferr = NoError
    /\ ParsedValues(filter.Criteria[1]) = {"Duration", "Regex"}

\* The Match function of a record's kind
MatchOf(kind, f, rec) ==
    CASE kind = "container" -> MatchContainer(f, rec, Now)
      [] kind = "image" -> MatchImage(f, rec, Now)
      [] kind = "network" -> MatchNetwork(f, rec, Now)
      [] kind = "volume" -> MatchVolume(f, rec, Now)

\* The filter that holds the k-th criterion of f alone
Only(f, k) == [f EXCEPT !.Criteria = <<f.Criteria[k]>>]

\* The filter that holds the criteria of f in the opposite order
Reversed(f) ==
    [f EXCEPT !.Criteria = [k \in 1..Len(f.Criteria) |-> f.Criteria[Len(f.Criteria) + 1 - k]]]

\* A criteria-mode match has been made
MatchedOnCriteria == fpc = "matched" /\ filter.SearchTerm = <<>>

\* C21: in criteria mode a record matches the filter iff every criterion of
\* the list matches it alone, in whatever order the criteria stand; a running
\* container created 2 hours ago matches state=running,age>1h and does not
\* match state=running,age>3h.
C21_CriteriaAreConjoined ==
    MatchedOnCriteria =>
        /\ matched.result
                = (\A k \in 1..Len(filter.Criteria) : MatchOf(matched.kind, Only(filter, k), matched.record))
        /\ matched.result = MatchOf(matched.kind, Reversed(filter), matched.record)
        /\ matched.kind = "container" /\ matched.record.State = RunningState =>
                /\ input = FilterState \o OpEqual \o RunningState \o <<",">>
                                \o FilterAge \o OpGreater \o <<"1", "h">> => matched.result
                /\ input = FilterState \o OpEqual \o RunningState \o <<",">>
                                \o FilterAge \o OpGreater \o <<"3", "h">> => ~matched.result

\* state=running,age>3h has been matched against the running container
\* created 2 hours ago: the first criterion matches it and the second does not
C21_Witness ==
    /\ fpc = "matched"
    /\ input = FilterState \o OpEqual \o RunningState \o <<",">> \o FilterAge \o OpGreater \o <<"3", "h">>
    /\ matched.kind = "container"
    /\ matched.record.State = RunningState
    /\ Now - matched.record.Created = 2 * Hour
    /\ MatchOf("container", Only(filter, 1), matched.record)
    /\ ~MatchOf("container", Only(filter, 2), matched.record)
    /\ ~matched.result

\* The fields each kind of record is documented to be filtered on
RecognisedFields(kind) ==
    CASE kind = "container" -> {FilterAge, FilterStatus, FilterState, FilterName}
      [] kind = "image" -> {FilterAge, FilterTag, FilterName, FilterSize}
      [] kind = "network" -> {FilterAge, FilterName, FilterDriver, FilterScope}
      [] kind = "volume" -> {FilterAge, FilterName, FilterDriver}

\* C22: a criterion whose field is not recognised for the kind of record
\* being matched (driver on a container, state on an image, tag on a network,
\* size on a volume) matches every record of that kind, whatever its operator
\* and value; the match yields a truth value and no error.
C22_UnrecognisedFieldMatches ==
    MatchedOnCriteria =>
        /\ matched.result \in BOOLEAN
        /\ \A k \in 1..Len(filter.Criteria) :
                filter.Criteria[k].Type \notin RecognisedFields(matched.kind) =>
                    MatchOf(matched.kind, Only(filter, k), matched.record)
        /\ (\A k \in 1..Len(filter.Criteria) :
                filter.Criteria[k].Type \notin RecognisedFields(matched.kind)) => matched.result

\* driver!=Re has been matched against a container
C22_Witness ==
    /\ fpc = "matched"
    /\ input = FilterDriver \o OpNotEqual \o <<"R", "e">>
    /\ Len(filter.Criteria) = 1
    /\ matched.kind = "container"
    /\ matched.result

NumericOperators == {OpEqual, OpNotEqual, OpGreater, OpLess, OpGreaterEqual, OpLessEqual}

\* The whole number a stands in the relation op to the fraction x
Stands(a, op, x) ==
    CASE op = OpEqual -> a * x.d = x.n
      [] op = OpNotEqual -> a * x.d # x.n
      [] op = OpGreater -> a * x.d > x.n
      [] op = OpLess -> a * x.d < x.n
      [] op = OpGreaterEqual -> a * x.d >= x.n
      [] op = OpLessEqual -> a * x.d <= x.n

\* Networks and volumes may come without a creation time
Undated(kind, rec) == kind \in {"network", "volume"} /\ rec.Created = 0

\* C23: an age criterion with one of = != > < >= <= matches a record iff
\* now - record.Created stands in that relation to the parsed duration; it
\* matches a network or a volume whose creation time is the zero value
\* whatever its operator and value.
C23_AgeComparesElapsedTime ==
    MatchedOnCriteria =>
        \A k \in 1..Len(filter.Criteria) :
            LET c == filter.Criteria[k]
                one == MatchOf(matched.kind, Only(filter, k), matched.record)
            IN  c.Type = FilterAge =>
                    /\ Undated(matched.kind, matched.record) => one
                    /\ ~Undated(matched.kind, matched.record) /\ c.Op \in NumericOperators =>
                            one = Stands(Now - matched.record.Created, c.Op, c.Duration)

\* age>2h has been matched against a record created exactly 2 hours ago,
\* and has not matched it
C23_Witness ==
    /\ fpc = "matched"
    /\ input = FilterAge \o OpGreater \o <<"2", "h">>
    /\ filter.Criteria[1].Duration = Float(2 * Hour)
    /\ Now - matched.record.Created = 2 * Hour
    /\ ~matched.result

StringFields ==
    {FilterStatus, FilterState, FilterName, FilterTag, FilterDriver, FilterScope}

\* The text of a record that a string field of its kind stands for
FieldText(kind, rec, type) ==
    CASE kind = "image" -> rec.Tag
      [] type = FilterStatus -> rec.Status
      [] type = FilterState -> rec.State
      [] type = FilterName -> rec.Name
      [] type = FilterDriver -> rec.Driver
      [] type = FilterScope -> rec.Scope

\* One character without its letter case
Caseless(ch) ==
    LET k == LetterIndex(UpperLetters, ch) IN IF k = 0 THEN ch ELSE LowerLetters[k]

SameIgnoringCase(a, b) ==
    Len(a) = Len(b) /\ \A i \in 1..Len(a) : Caseless(a[i]) = Caseless(b[i])

OccursIgnoringCase(sub, s) ==
    \E i \in 0..(Len(s) - Len(sub)) : \A j \in 1..Len(sub) : Caseless(s[i + j]) = Caseless(sub[j])

\* The operator that negates = != ~ !~
Opposite(op) ==
    CASE op = OpEqual -> OpNotEqual
      [] op = OpNotEqual -> OpEqual
      [] op = OpContains -> OpNotContains
      [] op = OpNotContains -> OpContains

\* C24: on a string field of the record's kind (status, state, name, tag,
\* driver, scope), = matches iff the field equals the value ignoring letter
\* case and != iff it does not; ~ matches iff the value, taken literally, is
\* a substring of the field ignoring letter case, and !~ iff it is not; so
\* of f=v and f!=v, and of f~v and f!~v, exactly one matches the record.
C24_StringOperators ==
    MatchedOnCriteria =>
        \A k \in 1..Len(filter.Criteria) :
            LET c == filter.Criteria[k]
                actual == FieldText(matched.kind, matched.record, c.Type)
                one == MatchOf(matched.kind, Only(filter, k), matched.record)
            IN  c.Type \in StringFields \cap RecognisedFields(matched.kind) =>
                    /\ c.Op = OpEqual => one = SameIgnoringCase(actual, c.Value)
                    /\ c.Op = OpNotEqual => one = ~SameIgnoringCase(actual, c.Value)
                    /\ c.Op = OpContains => one = OccursIgnoringCase(c.Value, actual)
                    /\ c.Op = OpNotContains => one = ~OccursIgnoringCase(c.Value, actual)
                    /\ c.Op \in {OpEqual, OpNotEqual, OpContains, OpNotContains}
                         /\ PlainText(c.Value) =>
                            one # MatchOf(matched.kind,
                                          ParseFilter(c.Type \o Opposite(c.Op) \o c.Value).f,
                                          matched.record)

\* name~r. has been matched against the container named xRE1Dx: the point
\* is not taken for any character, and the container does not match
C24_Witness ==
    /\ fpc = "matched"
    /\ input = FilterName \o OpContains \o <<"r", ".">>
    /\ matched.kind = "container"
    /\ matched.record.Name = Hit
    /\ ~matched.result

\* C25: for every image that ListImages produces from a runtime image of S
\* bytes and every criterion size op T, MatchImage returns S op T in bytes;
\* size>1MB selects exactly the images larger than 1024 * 1024 bytes.
C25_ImageSizeComparesBytes ==
    MatchedOnCriteria /\ matched.kind = "image" =>
        \A S \in ImageSizes :
            matched.record = ListImages(<<RuntimeImage(S)>>, Now)[1] =>
                \A k \in 1..Len(filter.Criteria) :
                    LET c == filter.Criteria[k]
                    IN  c.Type = FilterSize /\ c.Op \in NumericOperators =>
                            MatchImage(Only(filter, k), matched.record, Now)
                                = Stands(S, c.Op, Float(c.Bytes))

\* ------------------------------------------------------------------------
\* Properties of the UI

\* The table shows the rows of a listing
RowsShown == table.cells = "rows"

\* rows is records cut down to the positions of keep, in their order and
\* each record as it was listed
SelectsInOrder(rows, records, keep) ==
    \E pos \in [1..Len(rows) -> 1..Len(records)] :
        /\ \A i, j \in 1..Len(rows) : i < j => pos[i] < pos[j]
        /\ {pos[i] : i \in 1..Len(rows)} = keep
        /\ \A i \in 1..Len(rows) : rows[i] = records[pos[i]]

\* C26: the rows displayed are an order-preserving subsequence of the listed
\* records that holds exactly the records the active filter matches, each
\* once and as it was listed.
C26_RowsAreTheMatchingRecords ==
    RowsShown =>
        SelectsInOrder(table.rows, lists[table.title],
                       {j \in 1..Len(lists[table.title]) :
                            MatchRecord(table.title, uiFilter, lists[table.title][j])})

\* With state!=running active, the first and the third of the three
\* containers are displayed
C26_Witness ==
    /\ RowsShown
    /\ table.title = "containers"
    /\ String(uiFilter) = FilterState \o OpNotEqual \o RunningState
    /\ Len(lists["containers"]) = 3
    /\ table.rows = <<lists["containers"][1], lists["containers"][3]>>

\* The status bar shows the error of a parse
ErrorShown == statusBar.text = "Filter error: "

\* C27: when applyFilter is given a text that does not parse, the active
\* filter keeps its value, no load is started and the only effect is the
\* error in the status bar; the active filter only ever changes to a filter
\* that ParseFilter returned without error or to the empty filter.
C27_FailedParseKeepsTheFilter ==
    [][/\ ErrorShown' /\ statusBar' # statusBar =>
            /\ filterMode /\ ParseFilter(filterInput).err.failed
            /\ UNCHANGED <<uiFilter, filterInput, filterMode, currentView, table,
                           selection, lists, loads>>
       /\ uiFilter' # uiFilter =>
            /\ ~uiFilter'.nil
            /\ \/ uiFilter' = New
               \/ ~ParseFilter(filterInput).err.failed /\ uiFilter' = ParseFilter(filterInput).f]_vars

\* age> has been entered while name=xre1dx was active: the error is shown,
\* the filter is still active and no load is pending
C27_Witness ==
    /\ ErrorShown
    /\ filterMode
    /\ filterInput = FilterAge \o OpGreater
    /\ String(uiFilter) = FilterName \o OpEqual \o <<"x", "r", "e", "1", "d", "x">>
    /\ RowsShown
    /\ loads = <<>>

\* ------------------------------------------------------------------------
\* Properties of the value parsers and of Colorize

\* The hours the claim gives N of a unit
ClaimedHours(N, unit) ==
    CASE unit = <<"d">> -> Float(N * 24)
      [] unit = <<"w">> -> Float(N * 7 * 24)
      [] unit = <<"m", "o">> -> Float(N * 30 * 24)
      [] unit = <<"y">> -> Float(N * 365 * 24)
      [] unit = <<"h">> -> Float(N)
      [] unit = <<"m">> -> Frac(N, 60)
      [] unit = <<"s">> -> Frac(N, 3600)

CalledOn(function, text) == callee = function /\ argument = text

\* C28: for every non-negative integer N, parseDuration returns N*24h for
\* "Nd", N*7*24h for "Nw", N*30*24h for "Nmo", N*365*24h for "Ny" and the
\* standard duration value for "Nh", "Nm" and "Ns"
C28_ParseDurationValues ==
    \A N \in Wholes, unit \in DurationUnits :
        CalledOn("parseDuration", Itoa(N) \o unit) =>
            /\ outcome.err = "nil"
            /\ "val" \in DOMAIN outcome
            /\ FDiv(outcome.val, Float(Hour)) = ClaimedHours(N, unit)

\* The magnitudes of SizeTexts as typed and as numbers
TypedMagnitudes ==
    {[text |-> Itoa(N), value |-> Float(N)] : N \in Wholes \cup {8388608}}
    \cup {[text |-> <<"1", ".", "5">>, value |-> Frac(3, 2)]}

\* The power of 1024 the claim gives a suffix, the longest one that matches
ClaimedPower(suffix) ==
    CASE ToUpper(suffix) = <<"B">> -> 0
      [] ToUpper(suffix) = <<"K", "B">> -> 1
      [] ToUpper(suffix) = <<"M", "B">> -> 2
      [] ToUpper(suffix) = <<"G", "B">> -> 3
      [] ToUpper(suffix) = <<"T", "B">> -> 4

\* x truncated toward zero
Whole(x) == IF x.n >= 0 THEN x.n \div x.d ELSE 0 - ((0 - x.n) \div x.d)

\* N * 1024^power truncated toward zero, a count of 1024^3 or more as its
\* whole GiB and its remaining bytes
ClaimedBytes(N, power) ==
    IF power < 3 THEN Whole(FMul(N, Float(1024 ^ power)))
    ELSE [GiB |-> Whole(FMul(N, Float(1024 ^ (power - 3)))),
          B   |-> Whole(FMul(FAdd(FMul(N, Float(1024 ^ (power - 3))),
                                  Float(0 - Whole(FMul(N, Float(1024 ^ (power - 3)))))),
                             Float(1024 ^ 3)))]

\* C29: for every non-negative magnitude N and suffix among B, KB, MB, GB, TB
\* in any letter case, parseBytes returns N multiplied by 1, 1024, 1024^2,
\* 1024^3, 1024^4 respectively, truncated toward zero; a bare integer is
\* returned as that many bytes
C29_ParseBytesValues ==
    /\ \A N \in TypedMagnitudes, suffix \in SizeSuffixes \ {<<>>} :
            CalledOn("parseBytes", N.text \o suffix) =>
                /\ outcome.err = "nil"
                /\ "val" \in DOMAIN outcome
                /\ outcome.val = ClaimedBytes(N.value, ClaimedPower(suffix))
    /\ \A N \in Wholes :
            CalledOn("parseBytes", Itoa(N)) => outcome = [err |-> "nil", val |-> N]

\* The first word of a line is a timestamp of one of the layouts, or a level
\* name in any letter case, bare or between brackets or before a colon
StartsMarked(line) ==
    /\ Fields(line) # <<>>
    /\ \/ \E k \in 1..Len(layouts) : Parses(layouts[k], Fields(line)[1])
       \/ ToUpper(TrimCutset(Fields(line)[1], {"[", "]", ":"})) \in Levels

LinesOf(text) == {Split(text, "\n")[k] : k \in 1..Len(Split(text, "\n"))}

\* C30: for any log text in which no line starts with a recognised timestamp
\* or a recognised level token, Colorize returns the text unchanged,
\* character for character
C30_UnmarkedTextIsUnchanged ==
    (callee = "Colorize" /\ \A line \in LinesOf(argument) : ~StartsMarked(line)) =>
        outcome.val = argument

\* ------------------------------------------------------------------------
\* The selection after a render

\* The row the selection is to be on after restoreSelection(selectedRow, total)
RowAfterRestore(selectedRow, total) ==
    CASE total = 0 -> 0
      [] total # 0 /\ 1 <= selectedRow /\ selectedRow <= total -> selectedRow
      [] OTHER -> 1

\* This step is the end of a render pass that fills the table
RenderEnds == rendering # NoPass /\ rendering' = NoPass

MetricFields == {"CPU", "Memory", "NetIO"}

\* Where a worker stands when it is about to write the field
WriteAt(field) ==
    CASE field = "CPU" -> "writeCPU"
      [] field = "Memory" -> "writeMemory"
      [] field = "NetIO" -> "writeNetIO"

\* The order of a worker's steps
StepOrder ==
    <<"none", "acquire", "fetch", "lock", "writeCPU", "writeMemory", "writeNetIO",
      "unlock", "release", "wgDone", "done">>

StepRank(at) == CHOOSE n \in 1..Len(StepOrder) : StepOrder[n] = at

\* In this step worker id makes its assignment to the field
Writes(id, field) == wpc[id] = WriteAt(field) /\ wpc'[id] # wpc[id]

\* In this step worker id's stats request ends
FetchEnds(id) == wpc[id] = "fetch" /\ wpc'[id] # "fetch"

\* C32: within one call, a metric field of a record changes only in the step
\* in which the worker of that record's container, holding that record's
\* index, makes its one assignment to the field; a worker never goes back to
\* a step it has left, so it assigns each field once at most and makes one
\* stats request; and no two workers hold the same index
C32_OneWriterPerRecord ==
    [][/\ \A i \in DOMAIN result \cap DOMAIN result' : \A field \in MetricFields :
            result'[i][field] # result[i][field] =>
                \E id \in Ids : /\ Writes(id, field)
                                /\ windex[id] = i
                                /\ result[i].ID = id
       /\ \A id \in Ids : \A field \in MetricFields :
            Writes(id, field) => /\ windex[id] \in DOMAIN result
                                 /\ result[windex[id]].ID = id
                                 /\ result[windex[id]][field] = Sentinel
       /\ \A id \in Ids : StepRank(wpc'[id]) >= StepRank(wpc[id])
       /\ \A id \in Ids : wpc'[id] = "fetch" => wpc[id] \in {"acquire", "fetch"}
       /\ \A id \in Ids : FetchEnds(id) => wpc'[id] \in {"lock", "release"}
       /\ \A id \in Spawned : \A other \in Spawned \ {id} : windex[id] # windex[other]
      ]_vars

\* The call has returned two records that two workers filled
C32_Witness ==
    /\ ret.returned
    /\ \E i \in DOMAIN ret.list : \E j \in DOMAIN ret.list :
         /\ i # j
         /\ ret.list[i].NetIO = StatsOf[ret.list[i].ID].NetIO
         /\ ret.list[j].NetIO = StatsOf[ret.list[j].ID].NetIO

\* ------------------------------------------------------------------------
\* The merge lock

\* Between mu.Lock() and mu.Unlock(): the three assignments and the unlock
Merging == {id \in Ids : wpc[id] \in {"writeCPU", "writeMemory", "writeNetIO", "unlock"}}

\* C33: the workers between mu.Lock() and mu.Unlock() are the holder of mu
\* and nobody else, so there is one at most and it is at one of its three
\* assignments or at the unlock; no worker waiting for a semaphore slot,
\* in its stats request, or past its unlock holds mu; and mu is free when
\* the call returns
C33_MergeLockExclusive ==
    /\ mu \in Ids \cup {""}
    /\ Cardinality(Merging) <= 1
    /\ \A id \in Ids : id \in Merging <=> mu = id
    /\ \A id \in Ids : wpc[id] \in {"none", "acquire", "fetch", "lock", "release", "wgDone", "done"}
                            => mu # id
    /\ pc \in {"return", "returned"} => mu = ""

\* A worker holds mu while another waits for it and a third is in its stats
\* request
C33_Witness ==
    \E id \in Ids : \E waiting \in Ids : \E fetching \in Ids :
        /\ mu = id
        /\ wpc[id] = "writeMemory"
        /\ wpc[waiting] = "lock"
        /\ wpc[fetching] = "fetch"

\* ------------------------------------------------------------------------
\* The semaphore

\* The workers after sem <- struct{}{} and before the deferred <-sem
HoldingSlot ==
    {id \in Ids : wpc[id] \in {"fetch", "lock", "writeCPU", "writeMemory", "writeNetIO",
                               "unlock", "release"}}

\* C37: the slots held are as many as the workers between their acquire and
\* their release, whatever the outcome of their request, so each slot
\* acquired is released once; and no slot is held when wg.Wait() has
\* returned
C37_SlotsHeldAreWorkersInside ==
    /\ sem = Cardinality(HoldingSlot)
    /\ pc \in {"return", "returned"} => sem = 0
    /\ ret.returned => sem = 0

\* The call has returned after a request that succeeded, one that failed and
\* one that ran into its deadline
C37_Witness ==
    /\ ret.returned
    /\ sem = 0
    /\ \E id \in Ids : werr[id] = "nil"
    /\ \E id \in Ids : werr[id] = "error"
    /\ \E id \in Ids : werr[id] = "timeout"

\* ------------------------------------------------------------------------
\* The metric fields at return

\* The three metric fields of the record are the sentinel
AllSentinel(rec) == rec.CPU = Sentinel /\ rec.Memory = Sentinel /\ rec.NetIO = Sentinel

\* The three metric fields of the record are those of the one sample the
\* worker of its container took
AllOfOneSample(rec) ==
    /\ rec.ID \in Ids
    /\ werr[rec.ID] = "nil"
    /\ rec.CPU = wstats[rec.ID].CPU
    /\ rec.Memory = wstats[rec.ID].Memory
    /\ rec.NetIO = wstats[rec.ID].NetIO
    /\ wstats[rec.ID] = StatsOf[rec.ID]

\* C38: every record of the list the call returns has its three metric
\* fields all equal to the sentinel or all taken from the one sample fetched
\* for its container, never some of each
C38_MetricsAllOrNone ==
    ret.returned /\ ret.err = "nil" =>
        \A i \in DOMAIN ret.list : AllSentinel(ret.list[i]) \/ AllOfOneSample(ret.list[i])

\* The list returned holds a record filled from a sample, the record of a
\* running container whose request failed, and the record of a container
\* that is not running
C38_Witness ==
    /\ ret.returned
    /\ \E i \in DOMAIN ret.list : AllOfOneSample(ret.list[i]) /\ ~AllSentinel(ret.list[i])
    /\ \E i \in DOMAIN ret.list :
         /\ IsRunning(ret.list[i])
         /\ werr[ret.list[i].ID] \in {"error", "timeout"}
         /\ AllSentinel(ret.list[i])
    /\ \E i \in DOMAIN ret.list : ~IsRunning(ret.list[i]) /\ AllSentinel(ret.list[i])

\* ------------------------------------------------------------------------
\* The active filter and the render passes

\* A render pass is under way before or after this step
InRenderPass == rendering # NoPass \/ rendering' # NoPass

\* C34: no step taken while a render pass is under way changes the active
\* filter, so the rows a pass ends with are the records of its listing that
\* one filter, the active one, matches; and the active filter only ever
\* becomes the filter that the parse of the bar's text returned or the empty
\* filter of New
C34_FilterFixedDuringRender ==
    [][/\ InRenderPass => uiFilter' = uiFilter
       /\ RenderEnds =>
            table'.rows = SelectSeq(rendering.records,
                                    LAMBDA rec : MatchRecord(rendering.kind, uiFilter, rec))
       /\ uiFilter' # uiFilter =>
            /\ rendering = NoPass /\ rendering' = NoPass
            /\ \/ uiFilter' = New /\ ~filterMode
               \/ /\ filterMode
                  /\ ~ParseFilter(filterInput).err.failed
                  /\ uiFilter' = ParseFilter(filterInput).f]_vars

\* A render pass has matched two of its records, one of them hidden, while
\* the filter bar holds a text that parses to another filter than the active
\* one
C34_Witness ==
    /\ rendering # NoPass
    /\ rendering.at = 3
    /\ Len(rendering.filtered) = 1
    /\ filterMode
    /\ ~ParseFilter(filterInput).err.failed
    /\ ParseFilter(filterInput).f # uiFilter

\* ------------------------------------------------------------------------
\* The resource a row key acts on

\* This step starts an action or a detail view for the resource
ActsOn(resource) ==
    \/ /\ Len(asyncActions') = Len(asyncActions) + 1
       /\ asyncActions'[Len(asyncActions')].resource = <<resource>>
    \/ /\ detailView' # detailView
       /\ detailView'.text = "Loading..."
       /\ detailView'.resource = <<resource>>

\* C35: whatever the active filter, a key that acts on the selected row
\* while the table shows rows acts on the resource displayed in that row
C35_RowKeyActsOnDisplayedRow ==
    [][\A kind \in Views : \A n \in 1..Len(RuntimeList(kind)) :
          table.cells = "rows" /\ ActsOn(RuntimeList(kind)[n]) =>
              /\ selection \in 1..Len(table.rows)
              /\ table.rows[selection] = RuntimeList(kind)[n]]_vars

\* ------------------------------------------------------------------------
\* The view on display

\* C36: once no load is pending, the table shows what the load requested
\* last has listed, the resources of the kind that currentView names
C36_TableShowsCurrentView ==
    loads = <<>> /\ table.cells \in {"rows", "Error: "} => table.title = currentView

\* ------------------------------------------------------------------------
\* The text of a filter

\* The search term and the (field, operator, value) of every criterion
Reading(f) ==
    [SearchTerm |-> f.SearchTerm,
     Criteria |-> [k \in 1..Len(f.Criteria) |->
                     <<f.Criteria[k].Type, f.Criteria[k].Op, f.Criteria[k].Value>>]]

\* C39: the text String gives for a filter that ParseFilter returned parses
\* without error, to the same search term and the same (field, operator,
\* value) criteria in the same order
C39_StringParsesBack ==
    Parsed =>
        /\ ~ParseFilter(String(filter)).err.failed
        /\ Reading(ParseFilter(String(filter)).f) = Reading(filter)

\* ------------------------------------------------------------------------
\* Operators that do not suit the field

OrderingOps == {OpGreater, OpLess, OpGreaterEqual, OpLessEqual}

PatternOps == {OpContains, OpNotContains, OpRegex}

\* The string fields that the records of a kind are compared on
FieldsCompared(kind) ==
    CASE kind = "container" -> {FilterStatus, FilterState, FilterName}
      [] kind = "image" -> {FilterName, FilterTag}
      [] kind = "network" -> {FilterName, FilterDriver, FilterScope}
      [] kind = "volume" -> {FilterName, FilterDriver}
      [] OTHER -> {}

ComparedFields == UNION {FieldsCompared(kind) : kind \in {"container", "image", "network", "volume"}}

\* The clauses typed as a string field, an ordering operator and a value, or
\* as age, a pattern operator and a duration
Unsuited ==
    {[Type |-> fld, Op |-> op, Value |-> v] :
        fld \in ComparedFields \cap FieldSamples, op \in OrderingOps, v \in ValueSamples}
    \cup {[Type |-> FilterAge, Op |-> op, Value |-> v] :
            op \in PatternOps, v \in {d \in ValueSamples : parseDuration(d).err = "nil"}}

\* The criterion compares a field with an operator that does not suit it
IsUnsuited(kind, record, criterion) ==
    \/ criterion.Type \in FieldsCompared(kind) /\ criterion.Op \in OrderingOps
    \/ criterion.Type = FilterAge /\ criterion.Op \in PatternOps /\ record.Created # 0

\* C40: a clause of a string field with an ordering operator, or of age
\* with a pattern operator, parses without error to the one criterion typed;
\* and a filter with such a criterion matches no record of a kind that has
\* the field, for age no record with a creation time
C40_UnsuitedOperatorMatchesNothing ==
    /\ \A clause \in Unsuited :
          fpc # "typed" /\ input = clause.Type \o clause.Op \o clause.Value =>
              /\ ~ferr.failed
              /\ ~filter.nil
              /\ Len(filter.Criteria) = 1
              /\ filter.Criteria[1].Type = clause.Type
              /\ filter.Criteria[1].Op = clause.Op
              /\ filter.Criteria[1].Value = clause.Value
    /\ fpc = "matched" /\ filter.SearchTerm = <<>> =>
          \A k \in 1..Len(filter.Criteria) :
              IsUnsuited(matched.kind, matched.record, filter.Criteria[k]) => ~matched.result

\* name>xre1dx has been matched against the container of that name, and
\* did not match it
C40_Witness ==
    /\ fpc = "matched"
    /\ input = FilterName \o OpGreater \o <<"x", "r", "e", "1", "d", "x">>
    /\ matched.kind = "container"
    /\ matched.record.Name = Hit
    /\ ~matched.result

====
